---- MODULE Spec2Model ----
(***************************************************************************)
(* Model of the nexstern DAG pipeline editor: the node and edge stores     *)
(* (useNodeManagement, useEdgeManagement), the edge admission policy        *)
(* (validateEdge / addEdge), the graph validator (useDAGValidation,         *)
(* detectCycle), the selection store (useSelection) and the editor          *)
(* handlers of PipelineEditor that drive them.                              *)
(*                                                                         *)
(* Strings are modelled as follows.  An id `node-7` is the pair             *)
(* <<"node", 7>> and `edge-7` is <<"edge", 7>>: the prefix and the numeric  *)
(* suffix the template literal concatenates.  A node name is a sequence of  *)
(* characters so that trim() is computed.  A node's position is not carried *)
(* by the stores modelled here: no store or admission operation reads it.   *)
(*                                                                         *)
(* Every action is one event handler or one call of a hook's operation.     *)
(* React renders between two events, so a handler's closures (validateEdge  *)
(* over `edges` and `nodes`) hold the state the previous handler left.      *)
(***************************************************************************)
EXTENDS Integers, Sequences, FiniteSets, TLC

\* Highest numeric suffix a node id may take in the model (addNode is cut off above it).
MaxNodeId == 3
\* Highest numeric suffix an edge id may take in the model (addEdge is cut off above it).
MaxEdgeId == 3

VARIABLES
    nodes,            \* useNodeManagement: const [nodes, setNodes] = useState
    nodeIdCounter,    \* useNodeManagement: nodeIdCounter.current
    edges,            \* useEdgeManagement: const [edges, setEdges] = useState
    edgeIdCounter,    \* useEdgeManagement: edgeIdCounter.current
    selectedItems,    \* useSelection: const [selectedItems, setSelectedItems]
    pc,               \* position inside deleteSelectedItems: "idle" or "deleting"
    returned,         \* what the last operation returned to its caller
    alerted,          \* the message the last operation passed to alert(), if any
    highestSuffixSeen,\* history: highest node-id suffix handed out since construction
    highestSinceClear,\* history: highest node-id suffix handed out since the last clearNodes
    canvasState,      \* useCanvasState: const [canvasState, setCanvasState] = useState
    timers            \* the setTimeout callbacks of applyAutoLayout not yet run, oldest first

vars == <<nodes, nodeIdCounter, edges, edgeIdCounter, selectedItems, pc,
          returned, alerted, highestSuffixSeen, highestSinceClear,
          canvasState, timers>>

--------------------------------------------------------------------------
\* What an operation hands back: nothing, a boolean, a validateEdge verdict,
\* the node addNode created, or the Error it threw.

Void == [kind |-> "void"]
Bool(b) == [kind |-> "boolean", bool |-> b]
Verdict(v) == [kind |-> "verdict", verdict |-> v]
Created(node) == [kind |-> "node", node |-> node]
Throws(message) == [kind |-> "throws", message |-> message]

NoAlert == "(no alert)"

--------------------------------------------------------------------------
\* Identities

NodeId(n) == <<"node", n>>
EdgeId(n) == <<"edge", n>>
Suffix(id) == id[2]

\* The ids the callers of the stores pass in: every id a node can have had.
NodeIds == {NodeId(n) : n \in 1..MaxNodeId}
EdgeIds == {EdgeId(n) : n \in 1..MaxEdgeId}

Range(seq) == {seq[i] : i \in 1..Len(seq)}

Max2(a, b) == IF a >= b THEN a ELSE b

--------------------------------------------------------------------------
\* Node names: optional strings, a string being a sequence of characters

Undefined == [kind |-> "undefined"]
Null == [kind |-> "null"]
Str(chars) == [kind |-> "string", chars |-> chars]

\* JavaScript truthiness of an optional string: undefined, null and "" are falsy.
Truthy(v) == v.kind = "string" /\ v.chars # <<>>

RECURSIVE TrimStart(_)
TrimStart(chars) ==
    IF chars # <<>> /\ Head(chars) = " " THEN TrimStart(Tail(chars)) ELSE chars

RECURSIVE TrimEnd(_)
TrimEnd(chars) ==
    IF chars # <<>> /\ chars[Len(chars)] = " "
    THEN TrimEnd(SubSeq(chars, 1, Len(chars) - 1))
    ELSE chars

\* String.prototype.trim
Trim(chars) == TrimEnd(TrimStart(chars))

\* What a caller passes as `label`, and what the user answers to prompt().
LabelInputs == {Undefined, Str(<<>>), Str(<<" ", "A", " ">>)}
PromptAnswers == {Null, Str(<<>>), Str(<<" ">>), Str(<<"A">>)}

--------------------------------------------------------------------------
\* Edge admission policy (useEdgeManagement.validateEdge)

Rejected(message) == [isValid |-> FALSE, errorMessage |-> message]
Accepted == [isValid |-> TRUE]

\* Variant: validateEdge without Rule 1.
validateEdge_noSelfRule(es, ns, sourceId, targetId) ==
    IF \E i \in 1..Len(es) : es[i].source = sourceId /\ es[i].target = targetId
    THEN Rejected("Edge already exists between these nodes")
    ELSE IF ~(\E i \in 1..Len(ns) : ns[i].id = sourceId)
            \/ ~(\E i \in 1..Len(ns) : ns[i].id = targetId)
    THEN Rejected("Source or target node does not exist")
    ELSE IF \E i \in 1..Len(es) : es[i].source = targetId /\ es[i].target = sourceId
    THEN Rejected("This connection would create a direct cycle")
    ELSE Accepted

\* Variant: validateEdge without Rule 2.
validateEdge_noDuplicateRule(es, ns, sourceId, targetId) ==
    IF sourceId = targetId
    THEN Rejected("Self-connections are not allowed")
    ELSE IF ~(\E i \in 1..Len(ns) : ns[i].id = sourceId)
            \/ ~(\E i \in 1..Len(ns) : ns[i].id = targetId)
    THEN Rejected("Source or target node does not exist")
    ELSE IF \E i \in 1..Len(es) : es[i].source = targetId /\ es[i].target = sourceId
    THEN Rejected("This connection would create a direct cycle")
    ELSE Accepted

\* Variant: validateEdge without Rule 4.
validateEdge_noReverseRule(es, ns, sourceId, targetId) ==
    IF sourceId = targetId
    THEN Rejected("Self-connections are not allowed")
    ELSE IF \E i \in 1..Len(es) : es[i].source = sourceId /\ es[i].target = targetId
    THEN Rejected("Edge already exists between these nodes")
    ELSE IF ~(\E i \in 1..Len(ns) : ns[i].id = sourceId)
            \/ ~(\E i \in 1..Len(ns) : ns[i].id = targetId)
    THEN Rejected("Source or target node does not exist")
    ELSE Accepted

\* Variant: validateEdge with Rule 3 tried before Rules 1 and 2.
validateEdge_existenceFirst(es, ns, sourceId, targetId) ==
    IF ~(\E i \in 1..Len(ns) : ns[i].id = sourceId)
       \/ ~(\E i \in 1..Len(ns) : ns[i].id = targetId)
    THEN Rejected("Source or target node does not exist")
    ELSE IF sourceId = targetId
    THEN Rejected("Self-connections are not allowed")
    ELSE IF \E i \in 1..Len(es) : es[i].source = sourceId /\ es[i].target = targetId
    THEN Rejected("Edge already exists between these nodes")
    ELSE IF \E i \in 1..Len(es) : es[i].source = targetId /\ es[i].target = sourceId
    THEN Rejected("This connection would create a direct cycle")
    ELSE Accepted

\* validateEdge closes over the hook's `edges` and `nodes`; they are parameters here.
validateEdge(es, ns, sourceId, targetId) ==
    \* Rule 1: No self-connections
    IF sourceId = targetId
    THEN Rejected("Self-connections are not allowed")
    \* Rule 2: No duplicate edges
    ELSE IF \E i \in 1..Len(es) : es[i].source = sourceId /\ es[i].target = targetId
    THEN Rejected("Edge already exists between these nodes")
    \* Rule 3: Both nodes must exist
    ELSE IF ~(\E i \in 1..Len(ns) : ns[i].id = sourceId)
            \/ ~(\E i \in 1..Len(ns) : ns[i].id = targetId)
    THEN Rejected("Source or target node does not exist")
    \* Rule 4: direct cycle
    ELSE IF \E i \in 1..Len(es) : es[i].source = targetId /\ es[i].target = sourceId
    THEN Rejected("This connection would create a direct cycle")
    ELSE Accepted

--------------------------------------------------------------------------
\* useNodeManagement

\* addNode: `label || prompt("Enter node name:")`
nodeNameOf(label, answer) == IF Truthy(label) THEN label ELSE answer

\* addNode: `!nodeName || !nodeName.trim()` throws "Node name is required"
nameIsMissing(nodeName) == ~Truthy(nodeName) \/ Trim(nodeName.chars) = <<>>

\* Variant: the id taken from the number of stored nodes, not from the counter.
newNode_idFromLength(counter, nodeName) ==
    [id |-> NodeId(Len(nodes) + 1), label |-> Trim(nodeName.chars), selected |-> FALSE]

newNode(counter, nodeName) ==
    [id |-> NodeId(counter), label |-> Trim(nodeName.chars), selected |-> FALSE]

removeNode_update(prev, nodeId) == SelectSeq(prev, LAMBDA node : node.id # nodeId)

removeNodes_update(prev, nodeIds) == SelectSeq(prev, LAMBDA node : node.id \notin nodeIds)

\* The counter the store holds after clearNodes.
clearNodes_counter == 1

\* Variant: addNode taking the next id before it looks at the name.
addNode_countsRejected(label, answer) ==
    LET nodeName == nodeNameOf(label, answer) IN
    /\ pc = "idle"
    /\ nodeIdCounter <= MaxNodeId
    /\ nodeIdCounter' = nodeIdCounter + 1
    /\ IF nameIsMissing(nodeName)
       THEN /\ returned' = Throws("Node name is required") /\ alerted' = NoAlert
            /\ UNCHANGED <<nodes, highestSuffixSeen, highestSinceClear>>
       ELSE /\ nodes' = Append(nodes, newNode(nodeIdCounter, nodeName))
            /\ highestSuffixSeen' = Max2(highestSuffixSeen, nodeIdCounter)
            /\ highestSinceClear' = Max2(highestSinceClear, nodeIdCounter)
            /\ returned' = Created(newNode(nodeIdCounter, nodeName)) /\ alerted' = NoAlert
    /\ UNCHANGED <<edges, edgeIdCounter, selectedItems, pc, canvasState, timers>>

addNode(label, answer) ==
    LET nodeName == nodeNameOf(label, answer) IN
    /\ pc = "idle"
    /\ IF nameIsMissing(nodeName)
       THEN /\ returned' = Throws("Node name is required") /\ alerted' = NoAlert
            /\ UNCHANGED <<nodes, nodeIdCounter, highestSuffixSeen, highestSinceClear>>
       ELSE /\ nodeIdCounter <= MaxNodeId
            /\ nodes' = Append(nodes, newNode(nodeIdCounter, nodeName))
            /\ nodeIdCounter' = nodeIdCounter + 1
            /\ highestSuffixSeen' = Max2(highestSuffixSeen, nodeIdCounter)
            /\ highestSinceClear' = Max2(highestSinceClear, nodeIdCounter)
            /\ returned' = Created(newNode(nodeIdCounter, nodeName)) /\ alerted' = NoAlert
    /\ UNCHANGED <<edges, edgeIdCounter, selectedItems, pc, canvasState, timers>>

removeNode(nodeId) ==
    /\ pc = "idle"
    /\ nodes' = removeNode_update(nodes, nodeId)
    /\ returned' = Void /\ alerted' = NoAlert
    /\ UNCHANGED <<nodeIdCounter, edges, edgeIdCounter, selectedItems, pc,
                   highestSuffixSeen, highestSinceClear, canvasState, timers>>

removeNodes(nodeIds) ==
    /\ pc = "idle"
    /\ nodes' = removeNodes_update(nodes, nodeIds)
    /\ returned' = Void /\ alerted' = NoAlert
    /\ UNCHANGED <<nodeIdCounter, edges, edgeIdCounter, selectedItems, pc,
                   highestSuffixSeen, highestSinceClear, canvasState, timers>>

\* The labels the callers of updateNodeLabel pass in.
LabelUpdates == {<<>>, <<" ">>, <<" ", " ">>, <<" ", "B", " ">>}

\* `if (!label.trim()) return;` then the label of the node named, trimmed.
updateNodeLabel_update(prev, nodeId, label) ==
    IF Trim(label) = <<>>
    THEN prev
    ELSE [i \in 1..Len(prev) |->
             IF prev[i].id = nodeId
             THEN [prev[i] EXCEPT !.label = Trim(label)]
             ELSE prev[i]]

updateNodeLabel(nodeId, label) ==
    /\ pc = "idle"
    /\ nodes' = updateNodeLabel_update(nodes, nodeId, label)
    /\ returned' = Void /\ alerted' = NoAlert
    /\ UNCHANGED <<nodeIdCounter, edges, edgeIdCounter, selectedItems, pc,
                   highestSuffixSeen, highestSinceClear, canvasState, timers>>

clearNodes ==
    /\ pc = "idle"
    /\ nodes' = <<>>
    /\ nodeIdCounter' = clearNodes_counter
    /\ highestSinceClear' = 0
    /\ returned' = Void /\ alerted' = NoAlert
    /\ UNCHANGED <<edges, edgeIdCounter, selectedItems, pc, highestSuffixSeen, canvasState, timers>>

--------------------------------------------------------------------------
\* useEdgeManagement

\* Variant: the id taken from the number of stored edges, not from the counter.
newEdge_idFromLength(counter, sourceId, targetId) ==
    [id |-> EdgeId(Len(edges) + 1), source |-> sourceId, target |-> targetId,
     selected |-> FALSE]

newEdge(counter, sourceId, targetId) ==
    [id |-> EdgeId(counter), source |-> sourceId, target |-> targetId,
     selected |-> FALSE]

removeEdge_update(prev, edgeId) == SelectSeq(prev, LAMBDA edge : edge.id # edgeId)

removeEdges_update(prev, edgeIds) == SelectSeq(prev, LAMBDA edge : edge.id \notin edgeIds)

removeEdgesForNode_update(prev, nodeId) ==
    SelectSeq(prev, LAMBDA edge : edge.source # nodeId /\ edge.target # nodeId)

\* Variant: only the edges leaving the given nodes are removed.
removeEdgesForNodes_sourceOnly(prev, nodeIds) ==
    SelectSeq(prev, LAMBDA edge : edge.source \notin nodeIds)

removeEdgesForNodes_update(prev, nodeIds) ==
    SelectSeq(prev, LAMBDA edge : edge.source \notin nodeIds /\ edge.target \notin nodeIds)

\* The counter the store holds after clearEdges.
clearEdges_counter == 1

\* A call of validateEdge on the current render's edges and nodes.
validateEdgeCall(sourceId, targetId) ==
    /\ pc = "idle"
    /\ returned' = Verdict(validateEdge(edges, nodes, sourceId, targetId))
    /\ alerted' = NoAlert
    /\ UNCHANGED <<nodes, nodeIdCounter, edges, edgeIdCounter, selectedItems, pc,
                   highestSuffixSeen, highestSinceClear, canvasState, timers>>

\* Variant: the edge-id counter is advanced before the validation is looked at.
addEdge_countsRejected(sourceId, targetId) ==
    LET validation == validateEdge(edges, nodes, sourceId, targetId) IN
    /\ pc = "idle"
    /\ edgeIdCounter <= MaxEdgeId
    /\ edgeIdCounter' = edgeIdCounter + 1
    /\ IF ~validation.isValid
       THEN /\ alerted' = validation.errorMessage
            /\ returned' = Bool(FALSE)
            /\ UNCHANGED edges
       ELSE /\ edges' = Append(edges, newEdge(edgeIdCounter, sourceId, targetId))
            /\ alerted' = NoAlert
            /\ returned' = Bool(TRUE)
    /\ UNCHANGED <<nodes, nodeIdCounter, selectedItems, pc,
                   highestSuffixSeen, highestSinceClear, canvasState, timers>>

addEdge(sourceId, targetId) ==
    LET validation == validateEdge(edges, nodes, sourceId, targetId) IN
    /\ pc = "idle"
    /\ IF ~validation.isValid
       THEN /\ alerted' = validation.errorMessage
            /\ returned' = Bool(FALSE)
            /\ UNCHANGED <<edges, edgeIdCounter>>
       ELSE /\ edgeIdCounter <= MaxEdgeId
            /\ edges' = Append(edges, newEdge(edgeIdCounter, sourceId, targetId))
            /\ edgeIdCounter' = edgeIdCounter + 1
            /\ alerted' = NoAlert
            /\ returned' = Bool(TRUE)
    /\ UNCHANGED <<nodes, nodeIdCounter, selectedItems, pc,
                   highestSuffixSeen, highestSinceClear, canvasState, timers>>

removeEdge(edgeId) ==
    /\ pc = "idle"
    /\ edges' = removeEdge_update(edges, edgeId)
    /\ returned' = Void /\ alerted' = NoAlert
    /\ UNCHANGED <<nodes, nodeIdCounter, edgeIdCounter, selectedItems, pc,
                   highestSuffixSeen, highestSinceClear, canvasState, timers>>

removeEdges(edgeIds) ==
    /\ pc = "idle"
    /\ edges' = removeEdges_update(edges, edgeIds)
    /\ returned' = Void /\ alerted' = NoAlert
    /\ UNCHANGED <<nodes, nodeIdCounter, edgeIdCounter, selectedItems, pc,
                   highestSuffixSeen, highestSinceClear, canvasState, timers>>

removeEdgesForNode(nodeId) ==
    /\ pc = "idle"
    /\ edges' = removeEdgesForNode_update(edges, nodeId)
    /\ returned' = Void /\ alerted' = NoAlert
    /\ UNCHANGED <<nodes, nodeIdCounter, edgeIdCounter, selectedItems, pc,
                   highestSuffixSeen, highestSinceClear, canvasState, timers>>

removeEdgesForNodes(nodeIds) ==
    /\ pc = "idle"
    /\ edges' = removeEdgesForNodes_update(edges, nodeIds)
    /\ returned' = Void /\ alerted' = NoAlert
    /\ UNCHANGED <<nodes, nodeIdCounter, edgeIdCounter, selectedItems, pc,
                   highestSuffixSeen, highestSinceClear, canvasState, timers>>

clearEdges ==
    /\ pc = "idle"
    /\ edges' = <<>>
    /\ edgeIdCounter' = clearEdges_counter
    /\ returned' = Void /\ alerted' = NoAlert
    /\ UNCHANGED <<nodes, nodeIdCounter, selectedItems, pc,
                   highestSuffixSeen, highestSinceClear, canvasState, timers>>

--------------------------------------------------------------------------
\* Graph validator (useDAGValidation, detectCycle)

\* detectCycle: the adjacency list.  Every node id maps to [], then every edge
\* pushes its target onto `graph.get(edge.source) || []`, in edge order.
adjacency(ns, es) ==
    [id \in {ns[i].id : i \in 1..Len(ns)} \cup {es[i].source : i \in 1..Len(es)} |->
        LET out == SelectSeq(es, LAMBDA edge : edge.source = id)
        IN [i \in 1..Len(out) |-> out[i].target]]

\* `graph.get(nodeId) || []`
neighborsOf(graph, nodeId) == IF nodeId \in DOMAIN graph THEN graph[nodeId] ELSE <<>>

\* The inner function dfs of detectCycle; st holds the two sets it closes over
\* and `found`, its return value.
RECURSIVE dfs(_, _, _)
RECURSIVE dfsNeighbors(_, _, _, _)
\* Variant: `visited` is looked at before `recursionStack`.
dfs_visitedFirst(graph, nodeId, st) ==
    IF nodeId \in st.visited
    THEN [st EXCEPT !.found = FALSE]
    ELSE IF nodeId \in st.recursionStack
    THEN [st EXCEPT !.found = TRUE]
    ELSE LET entered == [visited |-> st.visited \cup {nodeId},
                         recursionStack |-> st.recursionStack \cup {nodeId},
                         found |-> FALSE]
             after == dfsNeighbors(graph, neighborsOf(graph, nodeId), 1, entered)
         IN IF after.found
            THEN after
            ELSE [after EXCEPT !.recursionStack = @ \ {nodeId}]

\* Variant: a node is never taken off `recursionStack`.
dfs_neverPops(graph, nodeId, st) ==
    IF nodeId \in st.recursionStack
    THEN [st EXCEPT !.found = TRUE]
    ELSE IF nodeId \in st.visited
    THEN [st EXCEPT !.found = FALSE]
    ELSE dfsNeighbors(graph, neighborsOf(graph, nodeId), 1,
                      [visited |-> st.visited \cup {nodeId},
                       recursionStack |-> st.recursionStack \cup {nodeId},
                       found |-> FALSE])

dfs(graph, nodeId, st) ==
    IF nodeId \in st.recursionStack
    THEN [st EXCEPT !.found = TRUE]
    ELSE IF nodeId \in st.visited
    THEN [st EXCEPT !.found = FALSE]
    ELSE LET entered == [visited |-> st.visited \cup {nodeId},
                         recursionStack |-> st.recursionStack \cup {nodeId},
                         found |-> FALSE]
             after == dfsNeighbors(graph, neighborsOf(graph, nodeId), 1, entered)
         IN IF after.found
            THEN after
            ELSE [after EXCEPT !.recursionStack = @ \ {nodeId}]

\* dfs: `for (const neighbor of neighbors) if (dfs(neighbor)) return true`
dfsNeighbors(graph, neighbors, i, st) ==
    IF i > Len(neighbors)
    THEN st
    ELSE LET r == dfs(graph, neighbors[i], st)
         IN IF r.found THEN r ELSE dfsNeighbors(graph, neighbors, i + 1, r)

\* detectCycle: `for (const node of nodes) if (!visited.has(node.id)) ...`
RECURSIVE detectCycleFrom(_, _, _, _)
detectCycleFrom(graph, ns, i, st) ==
    IF i > Len(ns)
    THEN FALSE
    ELSE IF ns[i].id \in st.visited
    THEN detectCycleFrom(graph, ns, i + 1, st)
    ELSE LET r == dfs(graph, ns[i].id, st)
         IN IF r.found THEN TRUE ELSE detectCycleFrom(graph, ns, i + 1, r)

\* Variant: only the in-degree-zero nodes are tried as DFS roots.
detectCycle_rootsOnly(ns, es) ==
    detectCycleFrom(adjacency(ns, es),
                    SelectSeq(ns, LAMBDA node :
                        ~(\E i \in 1..Len(es) : es[i].target = node.id)),
                    1,
                    [visited |-> {}, recursionStack |-> {}, found |-> FALSE])

detectCycle(ns, es) ==
    detectCycleFrom(adjacency(ns, es), ns, 1,
                    [visited |-> {}, recursionStack |-> {}, found |-> FALSE])

\* An entry of the validator's error list: the message, and for the
\* disconnected-nodes message the labels the template joins with ", ".
Error(msg, labels) == [msg |-> msg, labels |-> labels]
MinSizeError == Error("DAG must have at least 2 nodes", <<>>)
SelfLoopError == Error("Self-loops are not allowed", <<>>)
CycleError == Error("Graph contains cycles", <<>>)
DisconnectedError(labels) == Error("Disconnected nodes: ", labels)

\* Variant: Rule 1 asks for at least 1 node.
useDAGValidation_minOne(ns, es) ==
    LET connectedNodes == {es[i].source : i \in 1..Len(es)}
                              \cup {es[i].target : i \in 1..Len(es)}
        disconnectedNodes == SelectSeq(ns, LAMBDA node : node.id \notin connectedNodes)
        selfLoops == SelectSeq(es, LAMBDA edge : edge.source = edge.target)
        e1 == IF Len(ns) < 1 THEN <<MinSizeError>> ELSE <<>>
        e2 == IF Len(ns) >= 2 /\ Len(disconnectedNodes) > 0
              THEN <<DisconnectedError([i \in 1..Len(disconnectedNodes) |->
                                            disconnectedNodes[i].label])>>
              ELSE <<>>
        e3 == IF Len(selfLoops) > 0 THEN <<SelfLoopError>> ELSE <<>>
        e4 == IF Len(ns) > 0 /\ Len(es) > 0 /\ detectCycle(ns, es)
              THEN <<CycleError>>
              ELSE <<>>
        errors == e1 \o e2 \o e3 \o e4
    IN [isValid |-> Len(errors) = 0 /\ Len(ns) >= 2, errors |-> errors]

\* Variant: Rule 2 is evaluated for every node count.
useDAGValidation_rule2Unguarded(ns, es) ==
    LET connectedNodes == {es[i].source : i \in 1..Len(es)}
                              \cup {es[i].target : i \in 1..Len(es)}
        disconnectedNodes == SelectSeq(ns, LAMBDA node : node.id \notin connectedNodes)
        selfLoops == SelectSeq(es, LAMBDA edge : edge.source = edge.target)
        e1 == IF Len(ns) < 2 THEN <<MinSizeError>> ELSE <<>>
        e2 == IF Len(disconnectedNodes) > 0
              THEN <<DisconnectedError([i \in 1..Len(disconnectedNodes) |->
                                            disconnectedNodes[i].label])>>
              ELSE <<>>
        e3 == IF Len(selfLoops) > 0 THEN <<SelfLoopError>> ELSE <<>>
        e4 == IF Len(ns) > 0 /\ Len(es) > 0 /\ detectCycle(ns, es)
              THEN <<CycleError>>
              ELSE <<>>
        errors == e1 \o e2 \o e3 \o e4
    IN [isValid |-> Len(errors) = 0 /\ Len(ns) >= 2, errors |-> errors]

\* Variant: the rules after the first violated one are not evaluated.
useDAGValidation_shortCircuit(ns, es) ==
    LET connectedNodes == {es[i].source : i \in 1..Len(es)}
                              \cup {es[i].target : i \in 1..Len(es)}
        disconnectedNodes == SelectSeq(ns, LAMBDA node : node.id \notin connectedNodes)
        selfLoops == SelectSeq(es, LAMBDA edge : edge.source = edge.target)
        e1 == IF Len(ns) < 2 THEN <<MinSizeError>> ELSE <<>>
        e2 == IF Len(ns) >= 2 /\ Len(disconnectedNodes) > 0
              THEN <<DisconnectedError([i \in 1..Len(disconnectedNodes) |->
                                            disconnectedNodes[i].label])>>
              ELSE <<>>
        e3 == IF Len(selfLoops) > 0 THEN <<SelfLoopError>> ELSE <<>>
        e4 == IF Len(ns) > 0 /\ Len(es) > 0 /\ detectCycle(ns, es)
              THEN <<CycleError>>
              ELSE <<>>
        errors == IF e1 # <<>> THEN e1
                  ELSE IF e2 # <<>> THEN e2
                  ELSE IF e3 # <<>> THEN e3
                  ELSE e4
    IN [isValid |-> Len(errors) = 0 /\ Len(ns) >= 2, errors |-> errors]

useDAGValidation(ns, es) ==
    LET connectedNodes == {es[i].source : i \in 1..Len(es)}
                              \cup {es[i].target : i \in 1..Len(es)}
        disconnectedNodes == SelectSeq(ns, LAMBDA node : node.id \notin connectedNodes)
        selfLoops == SelectSeq(es, LAMBDA edge : edge.source = edge.target)
        \* Rule 1: At least 2 nodes
        e1 == IF Len(ns) < 2 THEN <<MinSizeError>> ELSE <<>>
        \* Rule 2: All nodes must be connected to at least one edge
        e2 == IF Len(ns) >= 2 /\ Len(disconnectedNodes) > 0
              THEN <<DisconnectedError([i \in 1..Len(disconnectedNodes) |->
                                            disconnectedNodes[i].label])>>
              ELSE <<>>
        \* Rule 3: No self-loops
        e3 == IF Len(selfLoops) > 0 THEN <<SelfLoopError>> ELSE <<>>
        \* Rule 4: No cycles (using DFS)
        e4 == IF Len(ns) > 0 /\ Len(es) > 0 /\ detectCycle(ns, es)
              THEN <<CycleError>>
              ELSE <<>>
        errors == e1 \o e2 \o e3 \o e4
    IN [isValid |-> Len(errors) = 0 /\ Len(ns) >= 2, errors |-> errors]

--------------------------------------------------------------------------
\* useCanvasState

\* A JavaScript number of the canvas state, as the fraction num/den in
\* lowest terms with den > 0.  The additions of ZOOM_STEP are exact here and
\* rounded to the nearest double in the program; both are clamped by the
\* same Math.min and Math.max.
RECURSIVE GCD(_, _)
GCD(a, b) == IF b = 0 THEN a ELSE GCD(b, a % b)

Abs(a) == IF a < 0 THEN -a ELSE a

Rat(num, den) ==
    LET sign == IF den < 0 THEN -1 ELSE 1
        g == GCD(Abs(num), Abs(den))
    IN [num |-> (sign * num) \div g, den |-> (sign * den) \div g]

Whole(n) == [num |-> n, den |-> 1]

RatLeq(a, b) == a.num * b.den <= b.num * a.den
RatAdd(a, b) == Rat(a.num * b.den + b.num * a.den, a.den * b.den)
RatSub(a, b) == Rat(a.num * b.den - b.num * a.den, a.den * b.den)
RatMul(a, b) == Rat(a.num * b.num, a.den * b.den)
RatDiv(a, b) == Rat(a.num * b.den, a.den * b.num)
\* Math.min and Math.max of two numbers
RatMin(a, b) == IF RatLeq(a, b) THEN a ELSE b
RatMax(a, b) == IF RatLeq(a, b) THEN b ELSE a

DEFAULT_ZOOM == Whole(1)
MIN_ZOOM == Rat(1, 10)
MAX_ZOOM == Whole(3)
ZOOM_STEP == Rat(1, 10)

Size(width, height) == [width |-> width, height |-> height]

\* useState<CanvasState>({ zoom: DEFAULT_ZOOM, pan: { x: 0, y: 0 },
\* canvasSize: initialCanvasSize }), initialCanvasSize = 800 x 600.
InitialCanvasState ==
    [zoom |-> DEFAULT_ZOOM, pan |-> [x |-> Whole(0), y |-> Whole(0)],
     canvasSize |-> Size(800, 600)]

zoomIn_update(prev) == [prev EXCEPT !.zoom = RatMin(RatAdd(prev.zoom, ZOOM_STEP), MAX_ZOOM)]

zoomOut_update(prev) == [prev EXCEPT !.zoom = RatMax(RatSub(prev.zoom, ZOOM_STEP), MIN_ZOOM)]

\* clampedZoom = Math.max(MIN_ZOOM, Math.min(MAX_ZOOM, zoom))
setZoom_update(prev, zoom) == [prev EXCEPT !.zoom = RatMax(MIN_ZOOM, RatMin(MAX_ZOOM, zoom))]

resetZoom_update(prev) == [prev EXCEPT !.zoom = DEFAULT_ZOOM]

resetPan_update(prev) == [prev EXCEPT !.pan = [x |-> Whole(0), y |-> Whole(0)]]

resetView_update(prev) ==
    [prev EXCEPT !.zoom = DEFAULT_ZOOM, !.pan = [x |-> Whole(0), y |-> Whole(0)]]

updateCanvasSize_update(prev, size) == [prev EXCEPT !.canvasSize = size]

\* The canvas state and the timer queue of an editor nobody has touched.
ViewAtRest ==
    /\ canvasState = InitialCanvasState
    /\ timers = <<>>

--------------------------------------------------------------------------
\* The stores as a library: every exported operation, called in any order.

Init ==
    /\ nodes = <<>>
    /\ nodeIdCounter = 1
    /\ edges = <<>>
    /\ edgeIdCounter = 1
    /\ selectedItems = [nodes |-> <<>>, edges |-> <<>>]
    /\ pc = "idle"
    /\ returned = Void
    /\ alerted = NoAlert
    /\ highestSuffixSeen = 0
    /\ highestSinceClear = 0
    /\ ViewAtRest

StoreNext ==
    \/ \E label \in LabelInputs, answer \in PromptAnswers : addNode(label, answer)
    \/ \E nodeId \in NodeIds : removeNode(nodeId)
    \/ \E nodeIds \in SUBSET NodeIds : removeNodes(nodeIds)
    \/ clearNodes
    \/ \E sourceId \in NodeIds, targetId \in NodeIds : validateEdgeCall(sourceId, targetId)
    \/ \E sourceId \in NodeIds, targetId \in NodeIds : addEdge(sourceId, targetId)
    \/ \E edgeId \in EdgeIds : removeEdge(edgeId)
    \/ \E edgeIds \in SUBSET EdgeIds : removeEdges(edgeIds)
    \/ \E nodeId \in NodeIds : removeEdgesForNode(nodeId)
    \/ \E nodeIds \in SUBSET NodeIds : removeEdgesForNodes(nodeIds)
    \/ clearEdges

StoreSpec == Init /\ [][StoreNext]_vars

--------------------------------------------------------------------------
\* useSelection

selectNode_update(prev, nodeId, multiSelect) ==
    IF multiSelect
    THEN [prev EXCEPT !.nodes =
            IF nodeId \in Range(prev.nodes)
            THEN SelectSeq(prev.nodes, LAMBDA id : id # nodeId)
            ELSE Append(prev.nodes, nodeId)]
    ELSE [prev EXCEPT !.nodes = <<nodeId>>, !.edges = <<>>]

selectEdge_update(prev, edgeId, multiSelect) ==
    IF multiSelect
    THEN [prev EXCEPT !.edges =
            IF edgeId \in Range(prev.edges)
            THEN SelectSeq(prev.edges, LAMBDA id : id # edgeId)
            ELSE Append(prev.edges, edgeId)]
    ELSE [prev EXCEPT !.edges = <<edgeId>>, !.nodes = <<>>]

NoSelection == [nodes |-> <<>>, edges |-> <<>>]

hasSelection == Len(selectedItems.nodes) > 0 \/ Len(selectedItems.edges) > 0

--------------------------------------------------------------------------
\* PipelineEditor: the handlers the user interface fires, one whole handler
\* per action, except deleteSelectedItems, which is split where its edge
\* removal has been applied and its node removal has not.

\* PipelineEditor.addNode: nodeManagement.addNode(undefined, position) inside
\* try/catch, then clearSelection and selectNode(newNode.id).
Editor_addNode(answer) ==
    LET nodeName == nodeNameOf(Undefined, answer) IN
    /\ pc = "idle"
    /\ IF nameIsMissing(nodeName)
       THEN /\ returned' = Void /\ alerted' = NoAlert
            /\ UNCHANGED <<nodes, nodeIdCounter, selectedItems,
                           highestSuffixSeen, highestSinceClear>>
       ELSE /\ nodeIdCounter <= MaxNodeId
            /\ nodes' = Append(nodes, newNode(nodeIdCounter, nodeName))
            /\ nodeIdCounter' = nodeIdCounter + 1
            /\ highestSuffixSeen' = Max2(highestSuffixSeen, nodeIdCounter)
            /\ highestSinceClear' = Max2(highestSinceClear, nodeIdCounter)
            /\ selectedItems' = selectNode_update(NoSelection, NodeId(nodeIdCounter), FALSE)
            /\ returned' = Void /\ alerted' = NoAlert
    /\ UNCHANGED <<edges, edgeIdCounter, pc, canvasState, timers>>

\* PipelineEditor.selectItem, fired by a click on a rendered node or edge.
selectItem(type, id, multiSelect) ==
    /\ pc = "idle"
    /\ selectedItems' = IF type = "node"
                        THEN selectNode_update(selectedItems, id, multiSelect)
                        ELSE selectEdge_update(selectedItems, id, multiSelect)
    /\ returned' = Void /\ alerted' = NoAlert
    /\ UNCHANGED <<nodes, nodeIdCounter, edges, edgeIdCounter, pc,
                   highestSuffixSeen, highestSinceClear, canvasState, timers>>

\* useSelection.clearSelection, fired by Escape or a click on the empty canvas.
clearSelection ==
    /\ pc = "idle"
    /\ selectedItems' = NoSelection
    /\ returned' = Void /\ alerted' = NoAlert
    /\ UNCHANGED <<nodes, nodeIdCounter, edges, edgeIdCounter, pc,
                   highestSuffixSeen, highestSinceClear, canvasState, timers>>

\* useSelection.selectAll, fired by Ctrl+A with the ids of all nodes and edges.
selectAll ==
    /\ pc = "idle"
    /\ selectedItems' = [nodes |-> [i \in 1..Len(nodes) |-> nodes[i].id],
                         edges |-> [i \in 1..Len(edges) |-> edges[i].id]]
    /\ returned' = Void /\ alerted' = NoAlert
    /\ UNCHANGED <<nodes, nodeIdCounter, edges, edgeIdCounter, pc,
                   highestSuffixSeen, highestSinceClear, canvasState, timers>>

\* deleteSelectedItems up to and including removeEdgesForNodes(selectedNodes).
deleteSelectedItems_removeEdgesForNodes ==
    /\ pc = "idle"
    /\ hasSelection
    /\ edges' = IF Len(selectedItems.nodes) > 0
                THEN removeEdgesForNodes_update(edges, Range(selectedItems.nodes))
                ELSE edges
    /\ pc' = "deleting"
    /\ returned' = Void /\ alerted' = NoAlert
    /\ UNCHANGED <<nodes, nodeIdCounter, edgeIdCounter, selectedItems,
                   highestSuffixSeen, highestSinceClear, canvasState, timers>>

\* Variant: the rest of deleteSelectedItems without its clearSelection.
deleteSelectedItems_rest_keepsSelection ==
    /\ pc = "deleting"
    /\ nodes' = IF Len(selectedItems.nodes) > 0
                THEN removeNodes_update(nodes, Range(selectedItems.nodes))
                ELSE nodes
    /\ edges' = IF Len(selectedItems.edges) > 0
                THEN removeEdges_update(edges, Range(selectedItems.edges))
                ELSE edges
    /\ pc' = "idle"
    /\ returned' = Void /\ alerted' = NoAlert
    /\ UNCHANGED <<nodeIdCounter, edgeIdCounter, selectedItems, highestSuffixSeen,
                   highestSinceClear, canvasState, timers>>

\* The rest of deleteSelectedItems: removeNodes(selectedNodes),
\* removeEdges(selectedEdges), clearSelection.
deleteSelectedItems_rest ==
    /\ pc = "deleting"
    /\ nodes' = IF Len(selectedItems.nodes) > 0
                THEN removeNodes_update(nodes, Range(selectedItems.nodes))
                ELSE nodes
    /\ edges' = IF Len(selectedItems.edges) > 0
                THEN removeEdges_update(edges, Range(selectedItems.edges))
                ELSE edges
    /\ selectedItems' = NoSelection
    /\ pc' = "idle"
    /\ returned' = Void /\ alerted' = NoAlert
    /\ UNCHANGED <<nodeIdCounter, edgeIdCounter, highestSuffixSeen, highestSinceClear,
                   canvasState, timers>>

\* clearAll: window.confirm, then clearNodes, clearEdges, clearSelection
\* and resetView.
clearAll(confirmed) ==
    /\ pc = "idle"
    /\ Len(nodes) > 0
    /\ IF confirmed
       THEN /\ nodes' = <<>>
            /\ nodeIdCounter' = clearNodes_counter
            /\ highestSinceClear' = 0
            /\ edges' = <<>>
            /\ edgeIdCounter' = clearEdges_counter
            /\ selectedItems' = NoSelection
            /\ canvasState' = resetView_update(canvasState)
       ELSE UNCHANGED <<nodes, nodeIdCounter, highestSinceClear, edges,
                        edgeIdCounter, selectedItems, canvasState>>
    /\ returned' = Void /\ alerted' = NoAlert
    /\ UNCHANGED <<pc, highestSuffixSeen, timers>>

\* Canvas.handleMouseUp ending a connection drag: the target is a rendered node
\* other than the drag's source, and onEdgeCreate is edgeManagement.addEdge.
Canvas_handleMouseUp ==
    \E sourceNodeId \in NodeIds, i \in 1..Len(nodes) :
        /\ nodes[i].id # sourceNodeId
        /\ addEdge(sourceNodeId, nodes[i].id)

Next ==
    \/ \E answer \in PromptAnswers : Editor_addNode(answer)
    \/ Canvas_handleMouseUp
    \/ \E i \in 1..Len(nodes), multiSelect \in BOOLEAN :
          selectItem("node", nodes[i].id, multiSelect)
    \/ \E i \in 1..Len(edges), multiSelect \in BOOLEAN :
          selectItem("edge", edges[i].id, multiSelect)
    \/ clearSelection
    \/ selectAll
    \/ deleteSelectedItems_removeEdgesForNodes
    \/ deleteSelectedItems_rest
    \/ \E confirmed \in BOOLEAN : clearAll(confirmed)

Spec == Init /\ [][Next]_vars

--------------------------------------------------------------------------
\* Node creation and relabelling: the node store's addNode, removeNode and
\* updateNodeLabel next to the editor's addNode handler and node clicks.

NodeNext ==
    \/ \E label \in LabelInputs, answer \in PromptAnswers : addNode(label, answer)
    \/ \E answer \in PromptAnswers : Editor_addNode(answer)
    \/ \E nodeId \in NodeIds, label \in LabelUpdates : updateNodeLabel(nodeId, label)
    \/ \E nodeId \in NodeIds : removeNode(nodeId)
    \/ \E i \in 1..Len(nodes), multiSelect \in BOOLEAN :
          selectItem("node", nodes[i].id, multiSelect)

NodeSpec == Init /\ [][NodeNext]_vars

--------------------------------------------------------------------------
\* Graph notions the properties are stated with, independent of detectCycle

EdgePairs(es) == {<<es[i].source, es[i].target>> : i \in 1..Len(es)}
NodeIdsOf(ns) == {ns[i].id : i \in 1..Len(ns)}

\* The ids reachable from `frontier` along one or more pairs of `rel`.
RECURSIVE ReachableFrom(_, _, _)
ReachableFrom(rel, frontier, seen) ==
    LET next == {p[2] : p \in {q \in rel : q[1] \in frontier}} \ seen
    IN IF next = {} THEN seen ELSE ReachableFrom(rel, next, seen \cup next)

HasDirectedCycle(es) ==
    \E p \in EdgePairs(es) : p[1] \in ReachableFrom(EdgePairs(es), {p[1]}, {})

ErrorsOf(ns, es) == Range(useDAGValidation(ns, es).errors)

--------------------------------------------------------------------------
\* Properties

\* C1: in every state the editor reaches from the empty editor, the stored
\* edges contain no directed cycle of any length.
C1_NoDirectedCycle == ~HasDirectedCycle(edges)

\* The state C2 starts from: nodes a, b, c and exactly the edges a->b and b->c.
ChainState(a, b, c) ==
    /\ Cardinality({a, b, c}) = 3
    /\ Len(nodes) = 3
    /\ NodeIdsOf(nodes) = {a, b, c}
    /\ Len(edges) = 2
    /\ EdgePairs(edges) = {<<a, b>>, <<b, c>>}

\* C2: with nodes a, b, c and exactly the edges a->b and b->c,
\* validateEdge(c, a) accepts, addEdge(c, a) returns true and appends the edge
\* c->a, and the validator on the resulting nodes and edges is invalid and
\* reports the cycle error.
C2_LongerCycleGap ==
    [][\A a \in NodeIds, b \in NodeIds, c \in NodeIds :
          ChainState(a, b, c) =>
             /\ validateEdge(edges, nodes, c, a) = Accepted
             /\ addEdge(c, a) =>
                   /\ returned' = Bool(TRUE)
                   /\ Len(edges') = 3
                   /\ SubSeq(edges', 1, 2) = edges
                   /\ edges'[3].source = c /\ edges'[3].target = a
                   /\ nodes' = nodes
                   /\ ~useDAGValidation(nodes', edges').isValid
                   /\ CycleError \in ErrorsOf(nodes', edges')]_vars

\* C2 witness: the third edge of a chain has just been accepted and closed a
\* three-node cycle, which the validator reports.
C2_Witness ==
    /\ returned = Bool(TRUE)
    /\ Len(nodes) = 3
    /\ Len(edges) = 3
    /\ \E a \in NodeIds, b \in NodeIds, c \in NodeIds :
          /\ Cardinality({a, b, c}) = 3
          /\ EdgePairs(edges) = {<<a, b>>, <<b, c>>, <<c, a>>}
          /\ edges[3].source = c /\ edges[3].target = a
    /\ CycleError \in ErrorsOf(nodes, edges)

\* C3: every stored edge's source and target are ids of nodes in the node
\* set, in every state of the editor, the state inside deleteSelectedItems
\* after its edge removal and before its node removal included.
C3_NoDanglingEdges ==
    \A i \in 1..Len(edges) :
        edges[i].source \in NodeIdsOf(nodes) /\ edges[i].target \in NodeIdsOf(nodes)

\* C3 witness: inside deleteSelectedItems, the edges of the selected nodes
\* are gone, the selected nodes are still stored, and other edges remain.
C3_Witness ==
    /\ pc = "deleting"
    /\ Len(selectedItems.nodes) > 0
    /\ Range(selectedItems.nodes) \subseteq NodeIdsOf(nodes)
    /\ Len(edges) > 0
    /\ edgeIdCounter - 1 > Len(edges)

\* C4: no two stored edges have the same (source, target) pair, and
\* validateEdge(s, t) rejects with the edge-already-exists reason whenever an
\* edge s->t is stored.
C4_NoDuplicateEdges ==
    /\ \A i \in 1..Len(edges), j \in 1..Len(edges) :
          (edges[i].source = edges[j].source /\ edges[i].target = edges[j].target)
              => i = j
    /\ \A i \in 1..Len(edges) :
          validateEdge(edges, nodes, edges[i].source, edges[i].target)
              = Rejected("Edge already exists between these nodes")

\* C4 witness: addEdge has just refused an edge that is already stored.
C4_Witness ==
    /\ Len(edges) > 0
    /\ returned = Bool(FALSE)
    /\ alerted = "Edge already exists between these nodes"

\* C5: whenever an edge b->a is stored, validateEdge(a, b) rejects with the
\* direct-cycle reason, and no state stores both a->b and b->a.
C5_DirectCycleGuard ==
    \A a \in NodeIds, b \in NodeIds :
        <<b, a>> \in EdgePairs(edges) =>
            /\ validateEdge(edges, nodes, a, b)
                  = Rejected("This connection would create a direct cycle")
            /\ <<a, b>> \notin EdgePairs(edges)

\* C5 witness: addEdge has just refused the reverse of a stored edge.
C5_Witness ==
    /\ Len(edges) > 0
    /\ returned = Bool(FALSE)
    /\ alerted = "This connection would create a direct cycle"

\* C6: validateEdge(a, a) rejects for every a in every state, no stored edge
\* has source = target, and the validator never reports the self-loop error
\* on the stored graph.
C6_NoSelfLoops ==
    /\ \A a \in NodeIds : ~validateEdge(edges, nodes, a, a).isValid
    /\ \A i \in 1..Len(edges) : edges[i].source # edges[i].target
    /\ SelfLoopError \notin ErrorsOf(nodes, edges)

\* C6 witness: addEdge has just refused a self-connection on a graph that
\* has nodes and edges.
C6_Witness ==
    /\ Len(nodes) > 0
    /\ Len(edges) > 0
    /\ returned = Bool(FALSE)
    /\ alerted = "Self-connections are not allowed"

\* The four admission checks in the order the specification lists them.
CheckFails(k, es, ns, s, t) ==
    CASE k = 1 -> s = t
      [] k = 2 -> <<s, t>> \in EdgePairs(es)
      [] k = 3 -> s \notin NodeIdsOf(ns) \/ t \notin NodeIdsOf(ns)
      [] k = 4 -> <<t, s>> \in EdgePairs(es)

CheckReason(k) ==
    CASE k = 1 -> "Self-connections are not allowed"
      [] k = 2 -> "Edge already exists between these nodes"
      [] k = 3 -> "Source or target node does not exist"
      [] k = 4 -> "This connection would create a direct cycle"

FailingChecks(es, ns, s, t) == {k \in 1..4 : CheckFails(k, es, ns, s, t)}

\* C7: for every (source, target) and every store state, validateEdge returns
\* the reason of the lowest-numbered failing check, and returns isValid = TRUE
\* with no message exactly when no check fails.
C7_FirstFailingCheckWins ==
    \A s \in NodeIds, t \in NodeIds :
        LET failing == FailingChecks(edges, nodes, s, t)
            verdict == validateEdge(edges, nodes, s, t)
        IN /\ verdict.isValid <=> failing = {}
           /\ verdict.isValid => DOMAIN verdict = {"isValid"}
           /\ failing # {} =>
                 verdict = Rejected(CheckReason(
                               CHOOSE k \in failing : \A m \in failing : k <= m))

\* C7 witness: a pair for which checks 2 and 3 both fail (a stored edge whose
\* endpoint node is gone), and a verdict with the reason of check 2.
C7_Witness ==
    /\ \E s \in NodeIds, t \in NodeIds :
          {2, 3} \subseteq FailingChecks(edges, nodes, s, t)
    /\ returned = Verdict(Rejected("Edge already exists between these nodes"))

\* C8: validateEdge changes neither edges, nodes nor the edge-id counter, and
\* a second call gives the same verdict; a rejected addEdge returns false and
\* leaves the edges and the edge-id counter as they were; an accepted addEdge
\* returns true and appends exactly one edge, with the given source and target.
C8_RejectionChangesNothing ==
    [][\A s \in NodeIds, t \in NodeIds :
          /\ validateEdgeCall(s, t) =>
                /\ UNCHANGED <<edges, nodes, edgeIdCounter>>
                /\ returned' = Verdict(validateEdge(edges, nodes, s, t))
                /\ validateEdge(edges', nodes', s, t) = returned'.verdict
          /\ addEdge(s, t) =>
                IF validateEdge(edges, nodes, s, t).isValid
                THEN /\ returned' = Bool(TRUE)
                     /\ Len(edges') = Len(edges) + 1
                     /\ SubSeq(edges', 1, Len(edges)) = edges
                     /\ edges'[Len(edges')].source = s
                     /\ edges'[Len(edges')].target = t
                ELSE /\ returned' = Bool(FALSE)
                     /\ UNCHANGED <<edges, nodes, edgeIdCounter>>]_vars

\* C8 witness: addEdge has just been refused on a store that holds an edge
\* and has handed out edge ids.
C8_Witness ==
    /\ returned = Bool(FALSE)
    /\ alerted # NoAlert
    /\ Len(edges) > 0
    /\ edgeIdCounter > 1

\* C9: no two stored nodes share an id and no two stored edges share an id.
C9_UniqueIds ==
    /\ \A i \in 1..Len(nodes), j \in 1..Len(nodes) :
          nodes[i].id = nodes[j].id => i = j
    /\ \A i \in 1..Len(edges), j \in 1..Len(edges) :
          edges[i].id = edges[j].id => i = j

\* C9 witness: ids are being reissued after a clearNodes, next to nodes and
\* edges created after removals.
C9_Witness ==
    /\ highestSuffixSeen > highestSinceClear
    /\ Len(nodes) >= 1
    /\ Len(edges) >= 2
    /\ edgeIdCounter - 1 > Len(edges)

\* The node a step appends to the node set, when it appends one.
NodeAppended == Len(nodes') = Len(nodes) + 1 /\ SubSeq(nodes', 1, Len(nodes)) = nodes
AppendedSuffix == Suffix(nodes'[Len(nodes')].id)

\* C10 as claimed: the suffix of each newly created node id is greater than
\* the highest suffix of any node id created earlier in the store's lifetime.
C10_IncreasingOverLifetime ==
    [][NodeAppended => AppendedSuffix > highestSuffixSeen]_vars

\* C10 amended: the suffix of each newly created node id is greater than the
\* highest suffix of any node id created since the last clearNodes (deleted
\* nodes included), and clearNodes restarts the numbering at 1.
C10_IncreasingSinceClear ==
    [][/\ NodeAppended =>
             /\ AppendedSuffix > highestSinceClear
             /\ \A i \in 1..Len(nodes) : AppendedSuffix > Suffix(nodes[i].id)
       /\ clearNodes => nodeIdCounter' = 1 /\ nodes' = <<>>]_vars

\* C10 witness: a node has just been created with a suffix above 1 while it
\* is the only node stored: the ids of deleted nodes were not reissued.
C10_Witness ==
    /\ returned.kind = "node"
    /\ Len(nodes) = 1
    /\ nodes[1] = returned.node
    /\ Suffix(nodes[1].id) > 1

--------------------------------------------------------------------------
\* The validator as a pure function: useDAGValidation applied to node and
\* edge arrays of every content and order, store-reachable or not.

\* Number of distinct node ids in the arrays given to the validator.
MaxGraphNodes == 3
\* Length of the longest edge array given to the validator.
MaxGraphEdges == 3

Validated(result) == [kind |-> "validation", validation |-> result]

Letters == <<"A", "B", "C", "D", "E", "F", "G", "H", "I", "J", "K", "L", "M",
             "N", "O", "P", "Q", "R", "S", "T", "U", "V", "W", "X", "Y", "Z">>

Position(x, y) == [x |-> x, y |-> y]

DAGNode(n, position) ==
    [id |-> NodeId(n), label |-> <<Letters[n]>>, position |-> position,
     selected |-> FALSE]

DAGEdge(k, sourceId, targetId) ==
    [id |-> EdgeId(k), source |-> sourceId, target |-> targetId, selected |-> FALSE]

\* The ids an edge of an input array may name: the ids nodes carry and one
\* id that no node of any input array carries.
EndpointIds == {NodeId(n) : n \in 1..(MaxGraphNodes + 1)}

\* Every array of up to MaxGraphNodes nodes with distinct ids, in every order.
NodeArrays ==
    UNION {{[i \in 1..m |-> DAGNode(f[i], Position(0, 0))] :
               f \in {g \in [1..m -> 1..MaxGraphNodes] :
                         \A i \in 1..m, j \in 1..m : g[i] = g[j] => i = j}} :
           m \in 0..MaxGraphNodes}

\* Every array of up to MaxGraphEdges edges over EndpointIds: self-loops,
\* repeated pairs and edges naming no node included.
EdgeArrays ==
    UNION {{[i \in 1..m |-> DAGEdge(i, f[i][1], f[i][2])] :
               f \in [1..m -> EndpointIds \X EndpointIds]} :
           m \in 0..MaxGraphEdges}

\* The hooks' state other than nodes and edges, as constructed.
HooksAtRest ==
    /\ nodeIdCounter = 1
    /\ edgeIdCounter = 1
    /\ selectedItems = NoSelection
    /\ pc = "idle"
    /\ alerted = NoAlert
    /\ highestSuffixSeen = 0
    /\ highestSinceClear = 0
    /\ ViewAtRest

ValidatorInit ==
    /\ nodes \in NodeArrays
    /\ edges \in EdgeArrays
    /\ returned = Void
    /\ HooksAtRest

\* A render: useDAGValidation(nodes, edges).
validate ==
    /\ returned' = Validated(useDAGValidation(nodes, edges))
    /\ UNCHANGED <<nodes, nodeIdCounter, edges, edgeIdCounter, selectedItems, pc,
                   alerted, highestSuffixSeen, highestSinceClear, canvasState, timers>>

ValidatorNext == validate

ValidatorSpec == ValidatorInit /\ [][ValidatorNext]_vars

--------------------------------------------------------------------------
\* Properties of the validator

EdgesNameNodes(ns, es) ==
    \A i \in 1..Len(es) :
        es[i].source \in NodeIdsOf(ns) /\ es[i].target \in NodeIdsOf(ns)

EveryNodeIsEndpoint(ns, es) ==
    \A i \in 1..Len(ns) :
        \E j \in 1..Len(es) : es[j].source = ns[i].id \/ es[j].target = ns[i].id

HasSelfLoop(es) == \E i \in 1..Len(es) : es[i].source = es[i].target

\* A directed cycle that a walk starting at a node of the node array reaches.
CycleFromNodes(ns, es) ==
    \E p \in EdgePairs(es) :
        /\ p[1] \in ReachableFrom(EdgePairs(es), {p[1]}, {})
        /\ p[1] \in NodeIdsOf(ns) \cup ReachableFrom(EdgePairs(es), NodeIdsOf(ns), {})

WellFormedDAG(ns, es) ==
    /\ Len(ns) >= 2
    /\ EveryNodeIsEndpoint(ns, es)
    /\ ~HasSelfLoop(es)
    /\ ~HasDirectedCycle(es)

Messages(errors) == [i \in 1..Len(errors) |-> errors[i].msg]

Perms(seq) ==
    {[i \in 1..Len(seq) |-> seq[f[i]]] : f \in Permutations(1..Len(seq))}

\* C11: isValid is true iff the error list is empty and there are at least 2
\* nodes, and the error list is never empty with fewer than 2 nodes.
C11_ValidatorVerdict ==
    returned.kind = "validation" =>
        LET result == returned.validation IN
        /\ result.isValid <=> (result.errors = <<>> /\ Len(nodes) >= 2)
        /\ result.errors = <<>> => Len(nodes) >= 2

\* C11 witness: a graph of three nodes and two edges was found valid.
C11_Witness ==
    /\ returned.kind = "validation"
    /\ returned.validation.isValid
    /\ returned.validation.errors = <<>>
    /\ Len(nodes) = 3
    /\ Len(edges) = 2

C13_MinimumSize ==
    (returned.kind = "validation" /\ Len(nodes) < 2) =>
        LET result == returned.validation IN
        /\ ~result.isValid
        /\ MinSizeError \in Range(result.errors)
        /\ \A e \in Range(result.errors) : e.msg # "Disconnected nodes: "

\* C13 witness: one node that no edge touches, next to edges, was validated.
C13_Witness ==
    /\ returned.kind = "validation"
    /\ Len(nodes) = 1
    /\ Len(edges) > 0
    /\ ~EveryNodeIsEndpoint(nodes, edges)
    /\ MinSizeError \in Range(returned.validation.errors)

\* C14: when every edge names nodes of the node array, detectCycle is true
\* iff some node reaches itself along one or more edges, the validator
\* reports the cycle error in exactly that case, and detectCycle gives the
\* same answer for every permutation of the node array and of the edge array.
C14_CycleDetectionExact ==
    EdgesNameNodes(nodes, edges) =>
        /\ detectCycle(nodes, edges) = HasDirectedCycle(edges)
        /\ \A ns \in Perms(nodes), es \in Perms(edges) :
              detectCycle(ns, es) = detectCycle(nodes, edges)
        /\ (returned.kind = "validation" /\ Len(nodes) > 0 /\ Len(edges) > 0) =>
              (CycleError \in Range(returned.validation.errors)
                  <=> HasDirectedCycle(edges))

\* C14 witness: the cycle error was reported for a graph whose first node
\* has no incoming edge and whose cycle no such node reaches.
C14_Witness ==
    /\ returned.kind = "validation"
    /\ CycleError \in Range(returned.validation.errors)
    /\ EdgesNameNodes(nodes, edges)
    /\ Len(nodes) = 3
    /\ Len(edges) = 2
    /\ ~(\E i \in 1..Len(edges) : edges[i].target = nodes[1].id)
    /\ ~HasSelfLoop(edges)

\* The messages of the violated rules, in the order minimum size,
\* disconnected nodes, self-loops, cycles.
ViolatedMessages(ns, es) ==
    (IF Len(ns) < 2 THEN <<"DAG must have at least 2 nodes">> ELSE <<>>)
    \o (IF Len(ns) >= 2 /\ ~EveryNodeIsEndpoint(ns, es)
        THEN <<"Disconnected nodes: ">> ELSE <<>>)
    \o (IF HasSelfLoop(es) THEN <<"Self-loops are not allowed">> ELSE <<>>)
    \o (IF Len(ns) > 0 /\ Len(es) > 0 /\ CycleFromNodes(ns, es)
        THEN <<"Graph contains cycles">> ELSE <<>>)

\* C15: the error list is the messages of the violated rules in the order
\* minimum size, disconnected nodes, self-loops, cycles, each at most once
\* whatever the number of offending nodes or edges; the disconnected-nodes
\* message lists the labels of the nodes no edge touches, in node order.
C15_RulesAccumulate ==
    returned.kind = "validation" =>
        LET errors == returned.validation.errors IN
        /\ Messages(errors) = ViolatedMessages(nodes, edges)
        /\ \A i \in 1..Len(errors), j \in 1..Len(errors) :
              errors[i].msg = errors[j].msg => i = j
        /\ \A i \in 1..Len(errors) :
              errors[i].labels =
                  IF errors[i].msg = "Disconnected nodes: "
                  THEN LET loose == SelectSeq(nodes, LAMBDA node :
                                        ~EveryNodeIsEndpoint(<<node>>, edges))
                       IN [k \in 1..Len(loose) |-> loose[k].label]
                  ELSE <<>>

\* C15 witness: three rules are violated at once, two edges being self-loops
\* and two nodes being touched by no edge.
C15_Witness ==
    /\ returned.kind = "validation"
    /\ Len(returned.validation.errors) = 3
    /\ Len(SelectSeq(edges, LAMBDA edge : edge.source = edge.target)) >= 2
    /\ Len(returned.validation.errors[1].labels) = 2

--------------------------------------------------------------------------
\* Layout engine (layoutUtils): arithmetic
\*
\* Positions are integers: every layout rounds what it stores with
\* Math.round, and the inputs drawn below are integers.

Min2(a, b) == IF a <= b THEN a ELSE b

\* Math.round(num / den) for den > 0: the nearest integer, halves upwards.
Round(num, den) == (2 * num + den) \div (2 * den)

\* Math.ceil(Math.sqrt(num / den)) for num >= 0, den > 0.
CeilSqrt(num, den) ==
    CHOOSE c \in 0..(num + 1) :
        /\ c * c * den >= num
        /\ c = 0 \/ (c - 1) * (c - 1) * den < num

\* `map.get(key) || []`
getOrEmpty(map, key) == IF key \in DOMAIN map THEN map[key] ELSE <<>>

\* The Map `incomingEdges`: a key per node, holding the sources of the edges
\* that end at it, in edge order (`?.push` skips targets that are no node).
incomingEdgesMap(ns, es) ==
    [id \in NodeIdsOf(ns) |->
        LET into == SelectSeq(es, LAMBDA edge : edge.target = id)
        IN [i \in 1..Len(into) |-> into[i].source]]

\* The Map `outgoingEdges`: a key per node, holding the targets of the edges
\* that start at it, in edge order.
outgoingEdgesMap(ns, es) ==
    [id \in NodeIdsOf(ns) |->
        LET out == SelectSeq(es, LAMBDA edge : edge.source = id)
        IN [i \in 1..Len(out) |-> out[i].target]]

\* `nodes.filter((node) => (incomingEdges.get(node.id) || []).length === 0)`
rootNodesOf(ns, es) ==
    SelectSeq(ns, LAMBDA node : Len(getOrEmpty(incomingEdgesMap(ns, es), node.id)) = 0)

\* The values a Set holds, in insertion order.
InsertionOrder(seq) ==
    LET Kept[i \in 0..Len(seq)] ==
            IF i = 0 THEN <<>>
            ELSE IF seq[i] \in Range(Kept[i - 1]) THEN Kept[i - 1]
            ELSE Append(Kept[i - 1], seq[i])
    IN Kept[Len(seq)]

RECURSIVE Flatten(_)
Flatten(seqs) == IF seqs = <<>> THEN <<>> ELSE Head(seqs) \o Flatten(Tail(seqs))

IndexOf(seq, value) == (CHOOSE i \in 1..Len(seq) : seq[i] = value /\
                            \A j \in 1..(i - 1) : seq[j] # value) - 1

--------------------------------------------------------------------------
\* calculateGridLayout.  `columns` is 0 when the caller passes none: the code
\* reads it with `columns || ...`, which treats 0 and undefined alike.

calculateGridLayout(ns, columns, spacing) ==
    IF Len(ns) = 0
    THEN ns
    ELSE LET optimalColumns == IF columns # 0 THEN columns
                               ELSE CeilSqrt(6 * Len(ns), 5)
             actualColumns == Min2(optimalColumns, Len(ns))
         IN [i \in 1..Len(ns) |->
                [ns[i] EXCEPT !.position =
                    Position(100 + ((i - 1) % actualColumns) * spacing.x,
                             100 + ((i - 1) \div actualColumns) * spacing.y)]]

--------------------------------------------------------------------------
\* calculateHierarchicalLayout

\* The while loop: levels are appended while currentLevel is not empty.
RECURSIVE levelLoop(_, _, _, _, _)
\* The while loop without the allParentsVisited test: a plain
\* breadth-first search.
levelLoop_plainBfs(incoming, outgoing, currentLevel, levels, visited) ==
    IF Len(currentLevel) = 0
    THEN [levels |-> levels, visited |-> visited]
    ELSE LET nowVisited == visited \cup Range(currentLevel)
             children == Flatten([i \in 1..Len(currentLevel) |->
                                     getOrEmpty(outgoing, currentLevel[i])])
             admitted == SelectSeq(children, LAMBDA childId :
                            childId \notin nowVisited)
         IN levelLoop(incoming, outgoing, InsertionOrder(admitted),
                      Append(levels, currentLevel), nowVisited)

levelLoop(incoming, outgoing, currentLevel, levels, visited) ==
    IF Len(currentLevel) = 0
    THEN [levels |-> levels, visited |-> visited]
    ELSE LET nowVisited == visited \cup Range(currentLevel)
             children == Flatten([i \in 1..Len(currentLevel) |->
                                     getOrEmpty(outgoing, currentLevel[i])])
             admitted == SelectSeq(children, LAMBDA childId :
                            /\ childId \notin nowVisited
                            /\ \A parentId \in Range(getOrEmpty(incoming, childId)) :
                                  parentId \in nowVisited)
         IN levelLoop(incoming, outgoing, InsertionOrder(admitted),
                      Append(levels, currentLevel), nowVisited)

calculateHierarchicalLayout(ns, es, levelSpacing, nodeSpacing) ==
    IF Len(ns) = 0
    THEN ns
    ELSE IF Len(rootNodesOf(ns, es)) = 0
    THEN calculateGridLayout(ns, CeilSqrt(Len(ns), 1), Position(200, 140))
    ELSE LET rootNodes == rootNodesOf(ns, es)
             bfs == levelLoop(incomingEdgesMap(ns, es), outgoingEdgesMap(ns, es),
                              [i \in 1..Len(rootNodes) |-> rootNodes[i].id], <<>>, {})
             unvisitedNodes == SelectSeq(ns, LAMBDA node : node.id \notin bfs.visited)
             levels == IF Len(unvisitedNodes) > 0
                       THEN Append(bfs.levels, [i \in 1..Len(unvisitedNodes) |->
                                                   unvisitedNodes[i].id])
                       ELSE bfs.levels
             nodeToLevel(id) == (CHOOSE k \in 1..Len(levels) : id \in Range(levels[k])) - 1
         IN [i \in 1..Len(ns) |->
                LET level == nodeToLevel(ns[i].id)
                    levelNodes == levels[level + 1]
                    positionInLevel == IndexOf(levelNodes, ns[i].id)
                    levelWidth == Max2((Len(levelNodes) - 1) * nodeSpacing, 0)
                IN [ns[i] EXCEPT !.position =
                       Position(Round(2 * 200 - levelWidth
                                          + 2 * positionInLevel * nodeSpacing, 2),
                                level * levelSpacing + 80)]]

--------------------------------------------------------------------------
\* calculateTreeLayout

\* A node array handed back by a layout function.
Nodes(array) == [kind |-> "nodes", nodes |-> array]

\* Deepest nesting of calculateSubtreePositions calls the engine's call
\* stack takes; one call more throws RangeError.
MaxCallDepth == 8

\* `positions.set(nodeId, position)`
MapSet(map, key, value) ==
    [k \in DOMAIN map \cup {key} |-> IF k = key THEN value ELSE map[k]]

\* The inner function calculateSubtreePositions (its unused parameter
\* siblingsCount left out).  The result holds the Map `positions` after the
\* call, the returned width, and whether the call stack overflowed.
RECURSIVE calculateSubtreePositions(_, _, _, _, _, _, _)
RECURSIVE subtreeChildren(_, _, _, _, _, _, _, _)
calculateSubtreePositions(outgoing, direction, nodeId, level, siblingIndex, positions, depth) ==
    IF depth > MaxCallDepth
    THEN [positions |-> positions, width |-> 0, overflow |-> TRUE]
    ELSE
    LET children == getOrEmpty(outgoing, nodeId)
        childSpacing == IF direction = "vertical" THEN 160 ELSE 200
        levelSpacing == IF direction = "vertical" THEN 140 ELSE 180
    IN IF Len(children) = 0
       THEN \* Leaf node
            [positions |-> MapSet(positions, nodeId,
                 IF direction = "vertical"
                 THEN Position(siblingIndex * childSpacing + 100,
                               level * levelSpacing + 80)
                 ELSE Position(level * levelSpacing + 100,
                               siblingIndex * childSpacing + 100)),
             width |-> 1, overflow |-> FALSE]
       ELSE LET after == subtreeChildren(outgoing, direction, children, 1,
                                         level + 1, 0, positions, depth + 1)
                firstChild == after.positions[children[1]]
                lastChild == after.positions[children[Len(children)]]
            IN IF after.overflow
               THEN after
               ELSE [positions |-> MapSet(after.positions, nodeId,
                        IF direction = "vertical"
                        THEN Position(Round(firstChild.x + lastChild.x, 2),
                                      level * levelSpacing + 80)
                        ELSE Position(level * levelSpacing + 100,
                                      Round(firstChild.x + lastChild.x, 2))),
                     width |-> after.width, overflow |-> FALSE]

\* `children.forEach((childId) => { totalWidth += calculateSubtreePositions(
\*      childId, level + 1, totalWidth, children.length) })`
subtreeChildren(outgoing, direction, children, i, level, totalWidth, positions, depth) ==
    IF i > Len(children)
    THEN [positions |-> positions, width |-> totalWidth, overflow |-> FALSE]
    ELSE LET r == calculateSubtreePositions(outgoing, direction, children[i],
                                            level, totalWidth, positions, depth)
         IN IF r.overflow
            THEN r
            ELSE subtreeChildren(outgoing, direction, children, i + 1, level,
                                 totalWidth + r.width, r.positions, depth)

\* The Map `positions` calculateTreeLayout has filled when it reaches its
\* final nodes.map, for a graph with at least one root.
treePositions(ns, es, direction) ==
    calculateSubtreePositions(outgoingEdgesMap(ns, es), direction,
                              rootNodesOf(ns, es)[1].id, 0, 0, <<>>, 1)

calculateTreeLayout(ns, es, direction) ==
    IF Len(ns) = 0
    THEN Nodes(ns)
    ELSE IF Len(rootNodesOf(ns, es)) = 0
    THEN Nodes(calculateHierarchicalLayout(ns, es, 180, 160))
    ELSE LET filled == treePositions(ns, es, direction)
         IN IF filled.overflow
            THEN Throws("RangeError: Maximum call stack size exceeded")
            ELSE Nodes([i \in 1..Len(ns) |->
                     [ns[i] EXCEPT !.position =
                         IF ns[i].id \in DOMAIN filled.positions
                         THEN filled.positions[ns[i].id]
                         ELSE ns[i].position]])

--------------------------------------------------------------------------
\* getSuggestedLayout

\* The Map `incomingCounts`: a key per node, and a key per edge target.
incomingCounts(ns, es) ==
    [id \in NodeIdsOf(ns) \cup {es[i].target : i \in 1..Len(es)} |->
        Cardinality({i \in 1..Len(es) : es[i].target = id})]

\* getSuggestedLayout choosing the tree layout by the edge count alone,
\* whatever the number of in-degree-zero nodes.
getSuggestedLayout_anyRootCount(ns, es) ==
    IF Len(ns) <= 1 THEN "grid"
    ELSE IF Len(ns) <= 4 THEN "circular"
    ELSE LET counts == incomingCounts(ns, es)
             rootNodes == {id \in DOMAIN counts : counts[id] = 0}
             treelikeCount == Cardinality({id \in DOMAIN counts : counts[id] <= 1})
         IN IF Cardinality(rootNodes) >= 1 /\ Len(es) = Len(ns) - 1
            THEN "tree"
            ELSE IF 10 * treelikeCount > 8 * Len(ns) /\ Len(es) > 0
            THEN "hierarchical"
            ELSE IF 20 * Len(es) > 3 * Len(ns) * (Len(ns) - 1)
            THEN "force"
            ELSE IF Len(es) > 0 /\ Len(ns) <= 20
            THEN "dagre"
            ELSE IF Len(ns) <= 12 THEN "circular" ELSE "grid"

\* getSuggestedLayout without its rule for at most four nodes.
getSuggestedLayout_noSmallRule(ns, es) ==
    IF Len(ns) <= 1 THEN "grid"
    ELSE LET counts == incomingCounts(ns, es)
             rootNodes == {id \in DOMAIN counts : counts[id] = 0}
             \* treelike = (number of counts <= 1) / nodes.length
             treelikeCount == Cardinality({id \in DOMAIN counts : counts[id] <= 1})
         IN IF Cardinality(rootNodes) = 1 /\ Len(es) = Len(ns) - 1
            THEN "tree"
            \* treelike > 0.8
            ELSE IF 10 * treelikeCount > 8 * Len(ns) /\ Len(es) > 0
            THEN "hierarchical"
            \* edges.length / ((nodes.length * (nodes.length - 1)) / 2) > 0.3
            ELSE IF 20 * Len(es) > 3 * Len(ns) * (Len(ns) - 1)
            THEN "force"
            ELSE IF Len(es) > 0 /\ Len(ns) <= 20
            THEN "dagre"
            ELSE IF Len(ns) <= 12 THEN "circular" ELSE "grid"

getSuggestedLayout(ns, es) ==
    IF Len(ns) <= 1 THEN "grid"
    ELSE IF Len(ns) <= 4 THEN "circular"
    ELSE LET counts == incomingCounts(ns, es)
             rootNodes == {id \in DOMAIN counts : counts[id] = 0}
             \* treelike = (number of counts <= 1) / nodes.length
             treelikeCount == Cardinality({id \in DOMAIN counts : counts[id] <= 1})
         IN IF Cardinality(rootNodes) = 1 /\ Len(es) = Len(ns) - 1
            THEN "tree"
            \* treelike > 0.8
            ELSE IF 10 * treelikeCount > 8 * Len(ns) /\ Len(es) > 0
            THEN "hierarchical"
            \* edges.length / ((nodes.length * (nodes.length - 1)) / 2) > 0.3
            ELSE IF 20 * Len(es) > 3 * Len(ns) * (Len(ns) - 1)
            THEN "force"
            ELSE IF Len(es) > 0 /\ Len(ns) <= 20
            THEN "dagre"
            ELSE IF Len(ns) <= 12 THEN "circular" ELSE "grid"

--------------------------------------------------------------------------
\* Strategy selection as a pure function: getSuggestedLayout applied to
\* every graph of up to MaxLayoutNodes nodes and MaxLayoutEdges edges, the
\* edges with distinct (source, target) pairs over the node ids and one id
\* no node carries, and to graphs of the sizes around the thresholds 12 and
\* 20 of the rule list.

\* Largest node count of the exhaustively drawn graphs.
MaxLayoutNodes == 5
\* Largest edge count of the exhaustively drawn graphs.
MaxLayoutEdges == 4

Suggested(strategy) == [kind |-> "strategy", strategy |-> strategy]

PlainNodes(n) == [i \in 1..n |-> DAGNode(i, Position(0, 0))]

\* The strictly increasing sequences of `len` numbers in from..upTo.
RECURSIVE Choices(_, _, _)
Choices(len, from, upTo) ==
    IF len = 0
    THEN {<<>>}
    ELSE UNION {{<<k>> \o rest : rest \in Choices(len - 1, k + 1, upTo)} :
                k \in from..upTo}

\* The k-th (source, target) pair over the ids 1..width.
PairAt(width, k) ==
    <<NodeId(((k - 1) \div width) + 1), NodeId(((k - 1) % width) + 1)>>

\* The edge array naming the pairs numbered c[1], c[2], ... over 1..width.
EdgesAt(width, c) ==
    [i \in 1..Len(c) |-> DAGEdge(i, PairAt(width, c[i])[1], PairAt(width, c[i])[2])]

\* 2k edges: the last two of n nodes both point at each of the first k.
FanIn(n, k) ==
    [i \in 1..(2 * k) |->
        DAGEdge(i, NodeId(IF i % 2 = 1 THEN n ELSE n - 1), NodeId((i + 1) \div 2))]

\* The node counts on both sides of `nodes.length <= 12` and `nodes.length <= 20`.
LargeSizes == {12, 13, 20, 21}

\* Every edge array of up to MaxLayoutEdges distinct pairs over the ids of
\* the n nodes and the id n + 1, self-loops included, listed in pair order;
\* and, for the large sizes, every fan-in.
SuggestInit ==
    /\ \/ \E n \in 0..MaxLayoutNodes, len \in 0..MaxLayoutEdges :
             \E c \in Choices(len, 1, (n + 1) * (n + 1)) :
                 /\ nodes = PlainNodes(n)
                 /\ edges = EdgesAt(n + 1, c)
       \/ \E n \in LargeSizes :
             \E k \in 0..(n - 2) :
                 /\ nodes = PlainNodes(n)
                 /\ edges = FanIn(n, k)
    /\ returned = Void
    /\ HooksAtRest

\* A call getSuggestedLayout(nodes, edges).
suggest ==
    /\ returned' = Suggested(getSuggestedLayout(nodes, edges))
    /\ UNCHANGED <<nodes, nodeIdCounter, edges, edgeIdCounter, selectedItems, pc,
                   alerted, highestSuffixSeen, highestSinceClear, canvasState, timers>>

SuggestNext == suggest

SuggestSpec == SuggestInit /\ [][SuggestNext]_vars

--------------------------------------------------------------------------
\* Properties of the strategy selection

InDegree(es, id) == Cardinality({i \in 1..Len(es) : es[i].target = id})

\* The prioritized rule list, over the nodes and their in-degrees.
FirstMatchingRule(ns, es) ==
    LET n == Len(ns)
        zeroInDegree == Cardinality({i \in 1..n : InDegree(es, ns[i].id) = 0})
        atMostOne == Cardinality({i \in 1..n : InDegree(es, ns[i].id) <= 1})
    IN IF n <= 1 THEN "grid"
       ELSE IF n <= 4 THEN "circular"
       ELSE IF zeroInDegree = 1 /\ Len(es) = n - 1 THEN "tree"
       \* atMostOne / n > 0.8
       ELSE IF 5 * atMostOne > 4 * n /\ Len(es) > 0 THEN "hierarchical"
       \* |E| / (n (n - 1) / 2) > 0.3
       ELSE IF 20 * Len(es) > 3 * n * (n - 1) THEN "force"
       ELSE IF Len(es) > 0 /\ n <= 20 THEN "dagre"
       ELSE IF n <= 12 THEN "circular"
       ELSE "grid"

RulesFollowedOverNodes ==
    (returned.kind = "strategy" /\ EdgesNameNodes(nodes, edges)) =>
        returned.strategy = FirstMatchingRule(nodes, edges)

\* The edge array can be built edge by edge through validateEdge.
Admitted(ns, es) ==
    \A k \in 1..Len(es) :
        validateEdge(SubSeq(es, 1, k - 1), ns, es[k].source, es[k].target).isValid

\* Acyclic, with every node reachable from the only in-degree-zero node.
RootedTree(ns, es) ==
    LET roots == {ns[i].id : i \in {j \in 1..Len(ns) : InDegree(es, ns[j].id) = 0}}
    IN /\ Cardinality(roots) = 1
       /\ ~HasDirectedCycle(es)
       /\ NodeIdsOf(ns) \subseteq roots \cup ReachableFrom(EdgePairs(es), roots, {})

\* C18: whenever getSuggestedLayout returns "tree" on a graph that the edge
\* admission policy lets through, the graph is acyclic with every node
\* reachable from its only in-degree-zero node, and calculateTreeLayout
\* gives every node a computed position.
C18_TreeIsPerfectTree ==
    (returned.kind = "strategy" /\ returned.strategy = "tree"
        /\ Admitted(nodes, edges)) =>
        /\ RootedTree(nodes, edges)
        /\ calculateTreeLayout(nodes, edges, "vertical").kind = "nodes"
        /\ NodeIdsOf(nodes) \subseteq
              DOMAIN treePositions(nodes, edges, "vertical").positions

--------------------------------------------------------------------------
\* calculateCircularLayout

NODE_WIDTH == 120
NODE_HEIGHT == 60

\* Math.cos and Math.sin are tabulated in millionths.
Millionths == 1000000

\* Math.cos(startAngle + index * angleStep) for startAngle = -PI/2 and
\* angleStep = 2*PI/count, by count and by index + 1.
CosTable ==
    [count \in 2..8 |->
        CASE count = 2 -> <<0, 0>>
          [] count = 3 -> <<0, 866025, -866025>>
          [] count = 4 -> <<0, 1000000, 0, -1000000>>
          [] count = 5 -> <<0, 951057, 587785, -587785, -951057>>
          [] count = 6 -> <<0, 866025, 866025, 0, -866025, -866025>>
          [] count = 7 -> <<0, 781831, 974928, 433884, -433884, -974928, -781831>>
          [] count = 8 -> <<0, 707107, 1000000, 707107, 0, -707107, -1000000, -707107>>]

\* Math.sin of the same angles.
SinTable ==
    [count \in 2..8 |->
        CASE count = 2 -> <<-1000000, 1000000>>
          [] count = 3 -> <<-1000000, 500000, 500000>>
          [] count = 4 -> <<-1000000, 0, 1000000, 0>>
          [] count = 5 -> <<-1000000, -309017, 809017, 809017, -309017>>
          [] count = 6 -> <<-1000000, -500000, 500000, 1000000, 500000, -500000>>
          [] count = 7 -> <<-1000000, -623490, 222521, 900969, 900969, 222521, -623490>>
          [] count = 8 -> <<-1000000, -707107, 0, 707107, 1000000, 707107, 0, -707107>>]

\* Called without radius and center: radius is absent and center is
\* { x: 400, y: 300 }.
calculateCircularLayout(ns) ==
    IF Len(ns) = 0
    THEN ns
    ELSE IF Len(ns) = 1
    THEN <<[ns[1] EXCEPT !.position =
               Position(400 - NODE_WIDTH \div 2, 300 - NODE_HEIGHT \div 2)]>>
    ELSE LET optimalRadius == Max2(150, Len(ns) * 25)
         IN [i \in 1..Len(ns) |->
                [ns[i] EXCEPT !.position =
                    Position(Round((400 - NODE_WIDTH \div 2) * Millionths
                                     + optimalRadius * CosTable[Len(ns)][i],
                                   Millionths),
                             Round((300 - NODE_HEIGHT \div 2) * Millionths
                                     + optimalRadius * SinTable[Len(ns)][i],
                                   Millionths))]]

--------------------------------------------------------------------------
\* resolveNodeOverlaps

\* Math.floor(Math.sqrt(n)), by bisection of lo..hi.
RECURSIVE FloorSqrtIn(_, _, _)
FloorSqrtIn(n, lo, hi) ==
    IF lo = hi
    THEN lo
    ELSE LET mid == (lo + hi + 1) \div 2
         IN IF mid * mid <= n
            THEN FloorSqrtIn(n, mid, hi)
            ELSE FloorSqrtIn(n, lo, mid - 1)

FloorSqrt(n) == FloorSqrtIn(n, 0, 46340)

\* Math.floor(a / Math.sqrt(squared)) for integers a and squared > 0.
FloorOverSqrt(a, squared) ==
    IF a >= 0
    THEN FloorSqrt((a * a) \div squared)
    ELSE LET r == FloorSqrt((a * a) \div squared)
         IN IF r * r * squared = a * a THEN -r ELSE -(r + 1)

\* Math.round(coordinate + sign * Math.cos(angle) * separationDistance) for
\* angle = Math.atan2(dy, dx), delta the dx (for x; the dy and Math.sin for
\* y), distance = Math.sqrt(squared) and separationDistance =
\* (minDistance - distance) / 2 + 5.  With e = sign * delta the argument is
\* coordinate - e/2 + e*(minDistance + 10)/(2*distance).  The value is
\* rounded as a real number; where it is an exact half (offsets in the
\* ratio 3:4:5, or on the diagonal) the floating-point product can fall one
\* pixel to the other side.
separated(coordinate, e, squared, minDistance) ==
    IF squared = 0
    THEN \* Math.atan2(0, 0) is 0: cosine 1, sine 0
         Round(2 * coordinate + e * (minDistance + 10), 2)
    ELSE (2 * coordinate + 1 - e
            + FloorOverSqrt(e * (minDistance + 10), squared)) \div 2

\* The body of the two nested loops for the pair (i, j), 0-based as in the
\* code.  The result is the array and the flag hasOverlap.
resolvePair_copyPaste(resolved, i, j, minDistance, hasOverlap) ==
    LET node1 == resolved[i + 1]
        node2 == resolved[j + 1]
        dx == node2.position.x - node1.position.x
        dy == node2.position.y - node1.position.y
        squared == dx * dx + dy * dy
        atOrigin == squared = 0
    IN IF squared < minDistance * minDistance
       THEN [resolvedNodes |->
                [resolved EXCEPT
                    ![i + 1] = [node1 EXCEPT !.position =
                        Position(separated(node1.position.x,
                                           IF atOrigin THEN -1 ELSE -dx,
                                           squared, minDistance),
                                 separated(node1.position.y,
                                           IF atOrigin THEN 0 ELSE -dy,
                                           squared, minDistance))],
                    ![j + 1] = [node1 EXCEPT !.position =
                        Position(separated(node2.position.x,
                                           IF atOrigin THEN 1 ELSE dx,
                                           squared, minDistance),
                                 separated(node2.position.y,
                                           IF atOrigin THEN 0 ELSE dy,
                                           squared, minDistance))]],
             hasOverlap |-> TRUE]
       ELSE [resolvedNodes |-> resolved, hasOverlap |-> hasOverlap]

resolvePair(resolved, i, j, minDistance, hasOverlap) ==
    LET node1 == resolved[i + 1]
        node2 == resolved[j + 1]
        dx == node2.position.x - node1.position.x
        dy == node2.position.y - node1.position.y
        squared == dx * dx + dy * dy
        atOrigin == squared = 0
    IN IF squared < minDistance * minDistance
       THEN [resolvedNodes |->
                [resolved EXCEPT
                    ![i + 1] = [node1 EXCEPT !.position =
                        Position(separated(node1.position.x,
                                           IF atOrigin THEN -1 ELSE -dx,
                                           squared, minDistance),
                                 separated(node1.position.y,
                                           IF atOrigin THEN 0 ELSE -dy,
                                           squared, minDistance))],
                    ![j + 1] = [node2 EXCEPT !.position =
                        Position(separated(node2.position.x,
                                           IF atOrigin THEN 1 ELSE dx,
                                           squared, minDistance),
                                 separated(node2.position.y,
                                           IF atOrigin THEN 0 ELSE dy,
                                           squared, minDistance))]],
             hasOverlap |-> TRUE]
       ELSE [resolvedNodes |-> resolved, hasOverlap |-> hasOverlap]

\* The inner loop over j for one i, from j on.
RECURSIVE resolveRow(_, _, _, _, _)
resolveRow(resolved, i, j, minDistance, hasOverlap) ==
    IF j >= Len(resolved)
    THEN [resolvedNodes |-> resolved, hasOverlap |-> hasOverlap]
    ELSE LET step == resolvePair(resolved, i, j, minDistance, hasOverlap)
         IN resolveRow(step.resolvedNodes, i, j + 1, minDistance,
                       step.hasOverlap)

\* One pass of the nested loops over i < j, from i on.
RECURSIVE resolvePass(_, _, _, _)
resolvePass(resolved, i, minDistance, hasOverlap) ==
    IF i >= Len(resolved)
    THEN [resolvedNodes |-> resolved, hasOverlap |-> hasOverlap]
    ELSE LET row == resolveRow(resolved, i, i + 1, minDistance, hasOverlap)
         IN resolvePass(row.resolvedNodes, i + 1, minDistance, row.hasOverlap)

maxIterations == 15

\* The outer loop from pass `iteration` on; the result holds the array and
\* the number of passes run.
RECURSIVE resolveLoop(_, _, _)
\* The outer loop leaving after its first pass whatever that pass met.
resolveLoop_singlePass(resolved, iteration, minDistance) ==
    IF iteration >= maxIterations
    THEN [resolvedNodes |-> resolved, passes |-> iteration]
    ELSE LET pass == resolvePass(resolved, 0, minDistance, FALSE)
         IN [resolvedNodes |-> pass.resolvedNodes, passes |-> iteration + 1]

resolveLoop(resolved, iteration, minDistance) ==
    IF iteration >= maxIterations
    THEN [resolvedNodes |-> resolved, passes |-> iteration]
    ELSE LET pass == resolvePass(resolved, 0, minDistance, FALSE)
         IN IF ~pass.hasOverlap
            THEN [resolvedNodes |-> pass.resolvedNodes, passes |-> iteration + 1]
            ELSE resolveLoop(pass.resolvedNodes, iteration + 1, minDistance)

resolveNodeOverlaps(ns, minSpacing) ==
    IF Len(ns) <= 1
    THEN ns
    ELSE resolveLoop(ns, 0, NODE_WIDTH + minSpacing).resolvedNodes

--------------------------------------------------------------------------
\* applyDagreLayout.  The dagre package is outside the repository: its
\* call either throws or leaves a centre point on every node of the graph.

DagreThrows == [kind |-> "throws"]

\* The text of the console.warn in the catch block; `alerted` keeps it.
DagreWarning == "Dagre layout failed, falling back to hierarchical layout:"
DagreGraph(centres) == [kind |-> "graph", node |-> centres]

\* Outcomes of dagre.layout(graph) drawn for the nodes ns: a failure, one
\* rank per node, all nodes in one rank, and all nodes on one point.
DagreOutcomes(ns) ==
    {DagreThrows,
     DagreGraph([i \in 1..Len(ns) |-> Position(140 + 320 * (i - 1), 110)]),
     DagreGraph([i \in 1..Len(ns) |-> Position(140, 110 + 180 * (i - 1))]),
     DagreGraph([i \in 1..Len(ns) |-> Position(140, 110)])}

\* applyDagreLayout with a catch block that falls back to the grid.
applyDagreLayout_gridFallback(ns, es, rankSep, nodeSep, dagre) ==
    IF Len(ns) = 0
    THEN ns
    ELSE IF dagre.kind = "throws"
    THEN calculateGridLayout(ns, 0, Position(200, 140))
    ELSE [i \in 1..Len(ns) |->
             [ns[i] EXCEPT !.position =
                 Position(Round(2 * dagre.node[i].x - NODE_WIDTH, 2),
                          Round(2 * dagre.node[i].y - NODE_HEIGHT, 2))]]

\* options = { rankSep, nodeSep, direction: "LR" } over the defaults
\* nodeWidth = NODE_WIDTH and nodeHeight = NODE_HEIGHT.  `dagre` is the
\* outcome of dagre.layout, its centres given by position in `ns`.
applyDagreLayout(ns, es, rankSep, nodeSep, dagre) ==
    IF Len(ns) = 0
    THEN ns
    ELSE IF dagre.kind = "throws"
    THEN calculateHierarchicalLayout(ns, es, rankSep, nodeSep)
    ELSE [i \in 1..Len(ns) |->
             [ns[i] EXCEPT !.position =
                 Position(Round(2 * dagre.node[i].x - NODE_WIDTH, 2),
                          Round(2 * dagre.node[i].y - NODE_HEIGHT, 2))]]

--------------------------------------------------------------------------
\* calculateForceLayout.  The simulation runs on floating-point numbers
\* from starting points that may be random; what the code fixes is that
\* every point ends inside the padded canvas and is rounded.

padding == 100

\* Final points of the simulation drawn for the nodes ns: all nodes on the
\* padded corner, a row 150 apart, and a diagonal.
ForceOutcomes(ns, canvasSize) ==
    LET clampX(x) == Max2(padding, Min2(x, canvasSize.width - padding))
        clampY(y) == Max2(padding, Min2(y, canvasSize.height - padding))
    IN {[i \in 1..Len(ns) |-> Position(clampX(0), clampY(0))],
        [i \in 1..Len(ns) |-> Position(clampX(100 + 150 * (i - 1)), clampY(300))],
        [i \in 1..Len(ns) |-> Position(clampX(100 + 150 * (i - 1)),
                                       clampY(100 + 100 * (i - 1)))]}

\* `positions` are the final points of the simulation, by position in ns.
calculateForceLayout(ns, es, iterations, canvasSize, positions) ==
    IF Len(ns) = 0
    THEN ns
    ELSE [i \in 1..Len(ns) |->
             LET pos == positions[IndexOf([k \in 1..Len(ns) |-> ns[k].id],
                                          ns[i].id) + 1]
             IN [ns[i] EXCEPT !.position = Position(pos.x, pos.y)]]

--------------------------------------------------------------------------
\* applyBestLayout

CanvasSize(width, height) == [width |-> width, height |-> height]

\* What the calls outside the repository's arithmetic give during one
\* call of applyBestLayout.
External(dagre, force) == [dagre |-> dagre, force |-> force]

\* The outcomes an applyBestLayout(ns, es) call can meet: one per dagre
\* outcome when the dagre branch runs, one per force outcome when the
\* force branch runs, a single one otherwise.
Externals(ns, es) ==
    LET layoutType == getSuggestedLayout(ns, es)
        noForce == [i \in 1..Len(ns) |-> ns[i].position]
    IN IF layoutType = "dagre"
       THEN {External(dagre, noForce) : dagre \in DagreOutcomes(ns)}
       ELSE IF layoutType = "force"
       THEN {External(DagreThrows, force) :
                force \in ForceOutcomes(ns, CanvasSize(800, 600))}
       ELSE {External(DagreThrows, noForce)}

\* canvasSize is absent: defaultCanvasSize = { width: 800, height: 600 }.
\* The result is Nodes(array), or the exception a layout threw.
applyBestLayout(ns, es, external) ==
    LET layoutType == getSuggestedLayout(ns, es)
        defaultCanvasSize == CanvasSize(800, 600)
        layoutedNodes ==
            CASE layoutType = "tree" -> calculateTreeLayout(ns, es, "vertical")
              [] layoutType = "hierarchical" ->
                    Nodes(calculateHierarchicalLayout(ns, es, 180, 160))
              [] layoutType = "dagre" ->
                    Nodes(applyDagreLayout(ns, es, 200, 120, external.dagre))
              [] layoutType = "force" ->
                    Nodes(calculateForceLayout(ns, es, 150, defaultCanvasSize,
                                               external.force))
              [] layoutType = "circular" -> Nodes(calculateCircularLayout(ns))
              [] OTHER ->
                    LET cols == CeilSqrt(3 * Len(ns), 2)
                    IN Nodes(calculateGridLayout(ns, cols, Position(200, 150)))
    IN IF layoutedNodes.kind = "throws"
       THEN layoutedNodes
       ELSE Nodes(resolveNodeOverlaps(layoutedNodes.nodes, 50))

--------------------------------------------------------------------------
\* The layout functions called on drawn graphs.  `nodes` and `edges` hold
\* the arguments and `returned` what the call handed back.

\* What a layout call handed back: the function called, the strategy it
\* ran, and Nodes(array) or the exception thrown.
Laid(call, strategy, outcome) ==
    [kind |-> "layout", call |-> call, strategy |-> strategy,
     outcome |-> outcome]

\* The array of the first n nodes on a slanted line 30 px apart, every
\* second one selected.
PlacedNodes(n) ==
    [i \in 1..n |->
        [DAGNode(i, Position(30 * (i - 1), 20 * (i - 1)))
            EXCEPT !.selected = (i % 2 = 0)]]

\* Node counts above the small ones: the first count the default rule
\* lays out as a grid.
GridSizes == {13}

\* Longest drawn edge array in which an edge may be a self-loop or name
\* an id that is no node.
MaxStrayEdges == 2

\* The k-th (source, target) pair of distinct ids over 1..width.
LinkAt(width, k) ==
    LET source == ((k - 1) \div (width - 1)) + 1
        other == ((k - 1) % (width - 1)) + 1
    IN <<NodeId(source), NodeId(IF other < source THEN other ELSE other + 1)>>

\* The edge array naming the links numbered c[1], c[2], ... over 1..width.
LinksAt(width, c) ==
    [i \in 1..Len(c) |-> DAGEdge(i, LinkAt(width, c[i])[1], LinkAt(width, c[i])[2])]

LayoutInit ==
    /\ \/ \E n \in GridSizes :
             /\ nodes = PlacedNodes(n)
             /\ edges = <<>>
       \/ \E n \in 0..MaxLayoutNodes, len \in 0..MaxLayoutEdges :
             \E c \in Choices(len, 1, n * (n - 1)) :
                 /\ nodes = PlacedNodes(n)
                 /\ edges = LinksAt(n, c)
       \/ \E n \in 0..MaxLayoutNodes, len \in 0..MaxStrayEdges :
             \E c \in Choices(len, 1, (n + 1) * (n + 1)) :
                 /\ nodes = PlacedNodes(n)
                 /\ edges = EdgesAt(n + 1, c)
    /\ returned = Void
    /\ HooksAtRest

\* applyBestLayout(nodes, edges)
applyLayout ==
    /\ returned = Void
    /\ \E external \in Externals(nodes, edges) :
          /\ returned' = Laid("applyBestLayout", getSuggestedLayout(nodes, edges),
                              applyBestLayout(nodes, edges, external))
          /\ alerted' = IF /\ getSuggestedLayout(nodes, edges) = "dagre"
                           /\ external.dagre.kind = "throws"
                        THEN DagreWarning
                        ELSE alerted
    /\ UNCHANGED <<nodes, nodeIdCounter, edges, edgeIdCounter, selectedItems,
                   pc, highestSuffixSeen, highestSinceClear, canvasState, timers>>

\* applyDagreLayout(nodes, edges), options left at DEFAULT_LAYOUT_OPTIONS
\* (rankSep 180, nodeSep 100)
dagreLayout ==
    /\ returned = Void
    /\ \E dagre \in DagreOutcomes(nodes) :
          /\ returned' = Laid("applyDagreLayout", "dagre",
                              Nodes(applyDagreLayout(nodes, edges, 180, 100, dagre)))
          /\ alerted' = IF Len(nodes) > 0 /\ dagre.kind = "throws"
                        THEN DagreWarning
                        ELSE alerted
    /\ UNCHANGED <<nodes, nodeIdCounter, edges, edgeIdCounter, selectedItems,
                   pc, highestSuffixSeen, highestSinceClear, canvasState, timers>>

\* calculateTreeLayout(nodes, edges, direction)
treeLayout ==
    /\ returned = Void
    /\ \E direction \in {"vertical", "horizontal"} :
          returned' = Laid("calculateTreeLayout", "tree",
                           calculateTreeLayout(nodes, edges, direction))
    /\ UNCHANGED <<nodes, nodeIdCounter, edges, edgeIdCounter, selectedItems,
                   pc, alerted, highestSuffixSeen, highestSinceClear, canvasState, timers>>

\* calculateHierarchicalLayout(nodes, edges)
hierarchicalLayout ==
    /\ returned = Void
    /\ returned' = Laid("calculateHierarchicalLayout", "hierarchical",
                        Nodes(calculateHierarchicalLayout(nodes, edges, 180, 160)))
    /\ UNCHANGED <<nodes, nodeIdCounter, edges, edgeIdCounter, selectedItems,
                   pc, alerted, highestSuffixSeen, highestSinceClear, canvasState, timers>>

LayoutNext ==
    \/ applyLayout
    \/ treeLayout
    \/ hierarchicalLayout
    \/ dagreLayout
    \/ validate

LayoutSpec == LayoutInit /\ [][LayoutNext]_vars

--------------------------------------------------------------------------
\* Properties of the layouts

doRectsOverlap(rect1, rect2) ==
    ~ \/ rect1.x + rect1.width < rect2.x
      \/ rect2.x + rect2.width < rect1.x
      \/ rect1.y + rect1.height < rect2.y
      \/ rect2.y + rect2.height < rect1.y

\* The rectangle a node covers on the canvas.
NodeRect(node) ==
    [x |-> node.position.x, y |-> node.position.y,
     width |-> NODE_WIDTH, height |-> NODE_HEIGHT]

\* The nodes of the array lie on pairwise distinct positions and no two of
\* their rectangles overlap.
DistinctAndApart(ns) ==
    \A i, j \in 1..Len(ns) :
        i < j => /\ ns[i].position # ns[j].position
                 /\ ~doRectsOverlap(NodeRect(ns[i]), NodeRect(ns[j]))

\* The scenario: nodes [A, B, C] with the edges A -> B and B -> C.
ChainABC ==
    /\ Len(nodes) = 3
    /\ [i \in 1..3 |-> nodes[i].label] = <<<<"A">>, <<"B">>, <<"C">>>>
    /\ [i \in 1..Len(edges) |-> <<edges[i].source, edges[i].target>>]
          = <<<<nodes[1].id, nodes[2].id>>, <<nodes[2].id, nodes[3].id>>>>

\* C17 as stated: on nodes [A, B, C] with edges A->B and B->C the validator
\* answers valid, applyBestLayout selects the "tree" strategy, and the three
\* positions it returns are pairwise distinct and do not overlap.
C17_ChainLaidAsTree ==
    ChainABC =>
        /\ returned.kind = "validation" => returned.validation.isValid
        /\ (returned.kind = "layout" /\ returned.call = "applyBestLayout") =>
              /\ returned.strategy = "tree"
              /\ returned.outcome.kind = "nodes"
              /\ Len(returned.outcome.nodes) = 3
              /\ DistinctAndApart(returned.outcome.nodes)

\* C17 amended: on nodes [A, B, C] with edges A->B and B->C the validator
\* answers valid, applyBestLayout selects the "circular" strategy (three
\* nodes are at most four), and the three positions it returns are pairwise
\* distinct and do not overlap.
C17_ChainLaidAsCircle ==
    ChainABC =>
        /\ returned.kind = "validation" => returned.validation.isValid
        /\ (returned.kind = "layout" /\ returned.call = "applyBestLayout") =>
              /\ returned.strategy = "circular"
              /\ returned.outcome.kind = "nodes"
              /\ Len(returned.outcome.nodes) = 3
              /\ DistinctAndApart(returned.outcome.nodes)

C17_Witness ==
    /\ ChainABC
    /\ returned.kind = "layout"
    /\ returned.call = "applyBestLayout"
    /\ returned.strategy = "circular"
    /\ returned.outcome.kind = "nodes"
    /\ [i \in 1..3 |-> returned.outcome.nodes[i].position]
          = <<Position(340, 120), Position(470, 345), Position(210, 345)>>

\* The array `after` has the length and order of `before`, and every node
\* keeps its id, label and selection flag.
OnlyPositionsChanged(before, after) ==
    /\ Len(after) = Len(before)
    /\ \A i \in 1..Len(before) :
          /\ after[i].id = before[i].id
          /\ after[i].label = before[i].label
          /\ after[i].selected = before[i].selected

\* C19: every call of applyBestLayout returns a node array of the length and
\* order of its argument in which every node keeps its id, label and
\* selection flag, and leaves the argument arrays as they were.
C19_LayoutChangesPositionsOnly ==
    [][(returned = Void /\ returned'.kind = "layout"
            /\ returned'.call = "applyBestLayout") =>
          /\ returned'.outcome.kind = "nodes"
          /\ OnlyPositionsChanged(nodes, returned'.outcome.nodes)
          /\ nodes' = nodes
          /\ edges' = edges]_vars

C19_Witness ==
    /\ returned.kind = "layout"
    /\ returned.call = "applyBestLayout"
    /\ returned.strategy = "grid"
    /\ returned.outcome.kind = "nodes"
    /\ Len(nodes) = 13
    /\ nodes[2].selected
    /\ nodes[1].position = Position(0, 0)
    /\ returned.outcome.nodes[1].position = Position(100, 74)
    /\ OnlyPositionsChanged(nodes, returned.outcome.nodes)

\* C20: every call of a layout function or of the validator ends with a
\* defined result, on graphs with directed cycles (also cycles reachable
\* from an in-degree-zero node) and on empty or single-node graphs too:
\* no call ends in an exception.
C20_EveryCallReturns ==
    /\ returned.kind = "layout" => returned.outcome.kind = "nodes"
    /\ returned.kind \in {"void", "layout", "validation"}

--------------------------------------------------------------------------
\* findNonOverlappingPosition

maxAttempts == 50
step == 30

\* The position the loop tests in its pass `attempt` (0-based).
testPosition(startPosition, attempt) ==
    Position(startPosition.x + (attempt % 10) * step,
             startPosition.y + (attempt \div 10) * step)

findNonOverlappingPosition_unpadded(ns, preferredPosition, pad) ==
    LET startPosition == IF preferredPosition = Undefined
                         THEN Position(100, 100)
                         ELSE preferredPosition
        testRect(attempt) ==
            [x |-> testPosition(startPosition, attempt).x,
             y |-> testPosition(startPosition, attempt).y,
             width |-> NODE_WIDTH,
             height |-> NODE_HEIGHT]
        hasOverlap(attempt) ==
            \E i \in 1..Len(ns) : doRectsOverlap(testRect(attempt), NodeRect(ns[i]))
        free == {attempt \in 0..(maxAttempts - 1) : ~hasOverlap(attempt)}
    IN IF free # {}
       THEN testPosition(startPosition,
                         CHOOSE attempt \in free : \A other \in free : attempt <= other)
       ELSE startPosition

\* `preferredPosition` is Undefined when the caller passes none; `pad` is
\* the parameter `padding` (20 when the caller passes none).
findNonOverlappingPosition(ns, preferredPosition, pad) ==
    LET startPosition == IF preferredPosition = Undefined
                         THEN Position(100, 100)
                         ELSE preferredPosition
        testRect(attempt) ==
            [x |-> testPosition(startPosition, attempt).x - pad,
             y |-> testPosition(startPosition, attempt).y - pad,
             width |-> NODE_WIDTH + pad * 2,
             height |-> NODE_HEIGHT + pad * 2]
        hasOverlap(attempt) ==
            \E i \in 1..Len(ns) : doRectsOverlap(testRect(attempt), NodeRect(ns[i]))
        free == {attempt \in 0..(maxAttempts - 1) : ~hasOverlap(attempt)}
    IN IF free # {}
       THEN testPosition(startPosition,
                         CHOOSE attempt \in free : \A other \in free : attempt <= other)
       ELSE startPosition

\* findNonOverlappingPosition called on drawn canvases.  `nodes` holds the
\* existing nodes, `selectedItems` the other two arguments of the call.

\* Most nodes on a drawn canvas.
MaxCanvasNodes == 2

\* Where the existing nodes are drawn from: positions that block every
\* candidate around (100, 100), touch a candidate's padded rectangle, miss
\* it by one pixel, or lie far off.
CanvasPositions ==
    {Position(235, 160), Position(-40, 100), Position(-41, 100),
     Position(100, 100), Position(100, 19), Position(100, 20),
     Position(130, 100), Position(240, 100), Position(241, 100),
     Position(225, 150), Position(900, 900)}

PreferredPositions == {Undefined, Position(100, 100), Position(130, 130), Position(0, 0)}

Paddings == {0, 20}

\* The arguments (preferredPosition, padding) of a call.
Arguments(preferredPosition, pad) ==
    [preferredPosition |-> preferredPosition, padding |-> pad]

\* What findNonOverlappingPosition handed back.
Placed(position) == [kind |-> "position", position |-> position]

RECURSIVE CanvasArrays(_)
CanvasArrays(len) ==
    IF len = 0
    THEN {<<>>}
    ELSE {Append(array, DAGNode(len, position)) :
              array \in CanvasArrays(len - 1), position \in CanvasPositions}

PlaceInit ==
    /\ \E len \in 0..MaxCanvasNodes : nodes \in CanvasArrays(len)
    /\ edges = <<>>
    /\ \E preferredPosition \in PreferredPositions, pad \in Paddings :
          selectedItems = Arguments(preferredPosition, pad)
    /\ nodeIdCounter = 1
    /\ edgeIdCounter = 1
    /\ pc = "idle"
    /\ returned = Void
    /\ alerted = NoAlert
    /\ highestSuffixSeen = 0
    /\ highestSinceClear = 0
    /\ ViewAtRest

\* findNonOverlappingPosition(nodes, preferredPosition, padding)
place ==
    /\ returned = Void
    /\ returned' = Placed(findNonOverlappingPosition(
                              nodes, selectedItems.preferredPosition,
                              selectedItems.padding))
    /\ UNCHANGED <<nodes, nodeIdCounter, edges, edgeIdCounter, selectedItems,
                   pc, alerted, highestSuffixSeen, highestSinceClear, canvasState, timers>>

PlaceNext == place

PlaceSpec == PlaceInit /\ [][PlaceNext]_vars

\* Two closed intervals [lo1, hi1] and [lo2, hi2] share a point.
Meet(lo1, hi1, lo2, hi2) == lo1 <= hi2 /\ lo2 <= hi1

\* The rectangle of a node at `position`, grown by `pad` on each side,
\* shares a point with the rectangle of an existing node (touching counts).
Blocked(ns, position, pad) ==
    \E i \in 1..Len(ns) :
        /\ Meet(position.x - pad, position.x + NODE_WIDTH + pad,
                ns[i].position.x, ns[i].position.x + NODE_WIDTH)
        /\ Meet(position.y - pad, position.y + NODE_HEIGHT + pad,
                ns[i].position.y, ns[i].position.y + NODE_HEIGHT)

\* The k-th candidate of the claim, for k = 0..49.
Candidate(start, k) == Position(start.x + (k % 10) * 30, start.y + (k \div 10) * 30)

\* The start position of the call in this state.
StartOfCall ==
    IF selectedItems.preferredPosition = Undefined
    THEN Position(100, 100)
    ELSE selectedItems.preferredPosition

\* C21: findNonOverlappingPosition returns the first of the 50 candidates
\* start + ((k mod 10)*30, floor(k/10)*30), k = 0..49, whose rectangle
\* padded by `padding` on each side does not overlap (or touch) any existing
\* node's rectangle, and the start position (preferred, or (100,100) by
\* default) when no candidate qualifies.
C21_FirstFreeCandidate ==
    returned.kind = "position" =>
        LET open == {k \in 0..49 :
                        ~Blocked(nodes, Candidate(StartOfCall, k),
                                 selectedItems.padding)}
        IN IF open = {}
           THEN returned.position = StartOfCall
           ELSE \E k \in open :
                   /\ \A other \in open : k <= other
                   /\ returned.position = Candidate(StartOfCall, k)

\* A node touching the padded rectangles of the first five candidates
\* from above rules them out; the sixth is returned.
C21_Witness ==
    /\ returned.kind = "position"
    /\ Len(nodes) = 1
    /\ nodes[1].position = Position(100, 20)
    /\ selectedItems = Arguments(Undefined, 20)
    /\ returned.position = Position(250, 100)

--------------------------------------------------------------------------
\* Properties of the hierarchical layout

\* The position the array `ns` gives the node `id`.
PositionOf(ns, id) == ns[CHOOSE i \in 1..Len(ns) : ns[i].id = id].position

\* The ids of the nodes no edge points at.
InDegreeZero(ns, es) ==
    {ns[i].id : i \in {j \in 1..Len(ns) : InDegree(es, ns[j].id) = 0}}

\* C22: when calculateHierarchicalLayout is called on a graph with at least
\* one in-degree-zero node, the nodes its level search never reaches all lie
\* in one level below every level of the search; and when the graph (edges
\* between its nodes) is acyclic, every in-degree-zero node lies in level 0,
\* every edge u -> v has y(v) > y(u), the search reaches every node, and
\* distinct nodes have distinct positions.
C22_LevelsAreTopological ==
    (/\ returned.kind = "layout"
     /\ returned.call = "calculateHierarchicalLayout"
     /\ InDegreeZero(nodes, edges) # {}) =>
        LET out == returned.outcome.nodes
            roots == rootNodesOf(nodes, edges)
            bfs == levelLoop(incomingEdgesMap(nodes, edges),
                             outgoingEdgesMap(nodes, edges),
                             [i \in 1..Len(roots) |-> roots[i].id], <<>>, {})
            trailing == Len(bfs.levels) * 180 + 80
        IN /\ \A id \in NodeIdsOf(nodes) :
                 IF id \in bfs.visited
                 THEN PositionOf(out, id).y < trailing
                 ELSE PositionOf(out, id).y = trailing
           /\ (EdgesNameNodes(nodes, edges) /\ ~HasDirectedCycle(edges)) =>
                 /\ \A id \in InDegreeZero(nodes, edges) :
                       PositionOf(out, id).y = 80
                 /\ \A i \in 1..Len(edges) :
                       PositionOf(out, edges[i].target).y
                          > PositionOf(out, edges[i].source).y
                 /\ NodeIdsOf(nodes) \subseteq bfs.visited
                 /\ \A i, j \in 1..Len(out) :
                       i # j => out[i].position # out[j].position

\* A -> B, A -> C, B -> C: C waits for B and lands in level 2.
C22_Witness ==
    /\ returned.kind = "layout"
    /\ returned.call = "calculateHierarchicalLayout"
    /\ Len(nodes) = 3
    /\ EdgePairs(edges) = {<<NodeId(1), NodeId(2)>>, <<NodeId(1), NodeId(3)>>,
                           <<NodeId(2), NodeId(3)>>}
    /\ [i \in 1..3 |-> returned.outcome.nodes[i].position]
          = <<Position(200, 80), Position(200, 260), Position(200, 440)>>

--------------------------------------------------------------------------
\* Properties of the dagre fallback

--------------------------------------------------------------------------
\* resolveNodeOverlaps called on drawn node arrays.  `nodes` holds the
\* array, `selectedItems` the argument minSpacing.

\* The array resolveNodeOverlaps returns and the number of passes of its
\* outer loop it ran.
resolveRun(ns, minSpacing) ==
    IF Len(ns) <= 1
    THEN [resolvedNodes |-> ns, passes |-> 0]
    ELSE resolveLoop(ns, 0, NODE_WIDTH + minSpacing)

\* What a resolveNodeOverlaps call handed back, with its pass count.
Resolved(run) ==
    [kind |-> "resolved", nodes |-> run.resolvedNodes, passes |-> run.passes]

\* Most nodes of a drawn array.
MaxCrowdedNodes == 3

\* Where the nodes are drawn from: one point, points at exactly the least
\* distance for a spacing of 50 and of 40, one pixel inside it, close by
\* on a slant, and far away.
CrowdedPositions ==
    {Position(0, 0), Position(170, 0), Position(169, 0), Position(0, 160),
     Position(30, 20), Position(110, 90), Position(400, 400)}

\* Sizes of the arrays with all nodes on one point: the first size the 15
\* passes do not pull apart.
PileSizes == {8}

MinSpacings == {40, 50}

RECURSIVE CrowdedArrays(_)
CrowdedArrays(len) ==
    IF len = 0
    THEN {<<>>}
    ELSE {Append(array, DAGNode(len, position)) :
              array \in CrowdedArrays(len - 1), position \in CrowdedPositions}

ResolveInit ==
    /\ \/ \E len \in 0..MaxCrowdedNodes : nodes \in CrowdedArrays(len)
       \/ \E n \in PileSizes : nodes = PlainNodes(n)
    /\ edges = <<>>
    /\ \E minSpacing \in MinSpacings : selectedItems = [minSpacing |-> minSpacing]
    /\ nodeIdCounter = 1
    /\ edgeIdCounter = 1
    /\ pc = "idle"
    /\ returned = Void
    /\ alerted = NoAlert
    /\ highestSuffixSeen = 0
    /\ highestSinceClear = 0
    /\ ViewAtRest

\* resolveNodeOverlaps(nodes, minSpacing)
resolve ==
    /\ returned = Void
    /\ returned' = Resolved(resolveRun(nodes, selectedItems.minSpacing))
    /\ UNCHANGED <<nodes, nodeIdCounter, edges, edgeIdCounter, selectedItems,
                   pc, alerted, highestSuffixSeen, highestSinceClear, canvasState, timers>>

ResolveNext == resolve

ResolveSpec == ResolveInit /\ [][ResolveNext]_vars

\* Every two nodes of the array are at least `least` apart.
AllApart(ns, least) ==
    \A i, j \in 1..Len(ns) :
        i < j =>
           LET dx == ns[j].position.x - ns[i].position.x
               dy == ns[j].position.y - ns[i].position.y
           IN dx * dx + dy * dy >= least * least

\* C24: resolveNodeOverlaps runs at most 15 passes; when it stops before
\* the 15th pass is over, no pair is closer than NODE_WIDTH + minSpacing;
\* on return either every pair is at least that far apart or all 15 passes
\* were used; and an input with no pair closer than that (or of at most
\* one node) comes back with every position unchanged.
C24_OverlapResolutionPostcondition ==
    returned.kind = "resolved" =>
        LET least == NODE_WIDTH + selectedItems.minSpacing
        IN /\ returned.passes <= 15
           /\ returned.passes < 15 => AllApart(returned.nodes, least)
           /\ AllApart(returned.nodes, least) \/ returned.passes = 15
           /\ (Len(nodes) <= 1 \/ AllApart(nodes, least)) =>
                 returned.nodes = nodes

\* Three nodes on one point are pulled apart in four passes.
C24_Witness ==
    /\ returned.kind = "resolved"
    /\ Len(nodes) = 3
    /\ \A i \in 1..3 : nodes[i].position = Position(0, 0)
    /\ selectedItems.minSpacing = 50
    /\ returned.passes = 4
    /\ AllApart(returned.nodes, 170)
    /\ returned.nodes # nodes

--------------------------------------------------------------------------
\* Properties of the tree layout

\* A rooted tree over the nodes: one in-degree-zero node, every other node
\* with exactly one parent, no cycle.
IsRootedTree(ns, es) ==
    /\ EdgesNameNodes(ns, es)
    /\ Cardinality(InDegreeZero(ns, es)) = 1
    /\ \A id \in NodeIdsOf(ns) \ InDegreeZero(ns, es) : InDegree(es, id) = 1
    /\ ~HasDirectedCycle(es)

\* The children of a node, in edge order.
ChildrenOf(es, id) ==
    LET out == SelectSeq(es, LAMBDA edge : edge.source = id)
    IN [i \in 1..Len(out) |-> out[i].target]

\* The number of leaves below (or at) a node of a tree.
RECURSIVE LeafCount(_, _)
RECURSIVE LeafCountOfFirst(_, _, _)
LeafCount(es, id) ==
    IF Len(ChildrenOf(es, id)) = 0
    THEN 1
    ELSE LeafCountOfFirst(es, ChildrenOf(es, id), Len(ChildrenOf(es, id)))

\* The number of leaves below the first k of the siblings.
LeafCountOfFirst(es, siblings, k) ==
    IF k = 0
    THEN 0
    ELSE LeafCountOfFirst(es, siblings, k - 1) + LeafCount(es, siblings[k])

\* The number of edges from the root of a tree down to a node.
RECURSIVE DepthOf(_, _)
DepthOf(es, id) ==
    IF InDegree(es, id) = 0
    THEN 0
    ELSE 1 + DepthOf(es, (CHOOSE p \in EdgePairs(es) : p[2] = id)[1])

\* The running sibling index of a node of a tree: the leaves below the
\* siblings before it (0 for the root).
RunningIndex(es, id) ==
    IF InDegree(es, id) = 0
    THEN 0
    ELSE LET parent == (CHOOSE p \in EdgePairs(es) : p[2] = id)[1]
             siblings == ChildrenOf(es, parent)
         IN LeafCountOfFirst(es, siblings, IndexOf(siblings, id))

\* The array was laid out top-down: its root lies on the top row.
LaidTopDown(ns, es, out) ==
    \A id \in InDegreeZero(ns, es) : PositionOf(out, id).y = 80

\* In a top-down tree layout every leaf lies at the slot of its running
\* sibling index and every internal node half-way between its first and
\* last child.
SlotsAndCentres(ns, es, out) ==
    \A id \in NodeIdsOf(ns) :
        LET children == ChildrenOf(es, id)
        IN /\ PositionOf(out, id).y = DepthOf(es, id) * 140 + 80
           /\ IF Len(children) = 0
              THEN PositionOf(out, id).x = RunningIndex(es, id) * 160 + 100
              ELSE PositionOf(out, id).x
                      = Round(PositionOf(out, children[1]).x
                                + PositionOf(out, children[Len(children)]).x, 2)

\* C25: for every rooted tree calculateTreeLayout gives distinct nodes
\* pairwise distinct positions, with each leaf at the slot of its running
\* sibling index and each internal node horizontally centred between its
\* first and last child.
C25_TreeSlotsDistinct ==
    (/\ returned.kind = "layout"
     /\ returned.call = "calculateTreeLayout"
     /\ IsRootedTree(nodes, edges)) =>
        /\ returned.outcome.kind = "nodes"
        /\ \A i, j \in 1..Len(nodes) :
              i # j => returned.outcome.nodes[i].position
                          # returned.outcome.nodes[j].position
        /\ LaidTopDown(nodes, edges, returned.outcome.nodes) =>
              SlotsAndCentres(nodes, edges, returned.outcome.nodes)

\* The part of C25 the code keeps: slots and centres of the top-down
\* layout of every rooted tree.
TreeSlotsAndCentres ==
    (/\ returned.kind = "layout"
     /\ returned.call = "calculateTreeLayout"
     /\ IsRootedTree(nodes, edges)) =>
        /\ returned.outcome.kind = "nodes"
        /\ LaidTopDown(nodes, edges, returned.outcome.nodes) =>
              SlotsAndCentres(nodes, edges, returned.outcome.nodes)

--------------------------------------------------------------------------
\* Properties of the strategy choice

\* No directed cycle passes through the first in-degree-zero node of `ns`
\* or through a node reachable from it.
NoCycleReachableFromRoot(ns, es) ==
    LET root == rootNodesOf(ns, es)[1].id
        reach == {root} \cup ReachableFrom(EdgePairs(es), {root}, {})
    IN \A id \in reach : id \notin ReachableFrom(EdgePairs(es), {id}, {})

\* C26: every call of applyBestLayout ends with a node array, on cyclic
\* graphs too, and when the strategy it ran is the recursive tree layout
\* the graph has an in-degree-zero node from which no directed cycle can
\* be reached.
C26_BestLayoutTerminates ==
    (returned.kind = "layout" /\ returned.call = "applyBestLayout") =>
        /\ returned.outcome.kind = "nodes"
        /\ returned.strategy = "tree" =>
              /\ Len(rootNodesOf(nodes, edges)) > 0
              /\ NoCycleReachableFromRoot(nodes, edges)

\* The tree layout chosen for a graph with a directed cycle beside its
\* isolated root, and the call returning.
C26_Witness ==
    /\ returned.kind = "layout"
    /\ returned.call = "applyBestLayout"
    /\ returned.strategy = "tree"
    /\ returned.outcome.kind = "nodes"
    /\ Len(nodes) = 5
    /\ HasDirectedCycle(edges)
    /\ EdgePairs(edges) = {<<NodeId(2), NodeId(3)>>, <<NodeId(3), NodeId(4)>>,
                           <<NodeId(4), NodeId(5)>>, <<NodeId(5), NodeId(2)>>}
    /\ NoCycleReachableFromRoot(nodes, edges)

--------------------------------------------------------------------------
\* Properties of the selection

EdgeIdsOf(es) == {es[i].id : i \in 1..Len(es)}

\* C27: between two handlers every selected node id is the id of a stored
\* node and every selected edge id is the id of a stored edge, and the step
\* that ends deleteSelectedItems and a confirmed clearAll leave the
\* selection empty.
C27_SelectionRefersToLiveItems ==
    /\ [](pc = "idle" =>
            /\ Range(selectedItems.nodes) \subseteq NodeIdsOf(nodes)
            /\ Range(selectedItems.edges) \subseteq EdgeIdsOf(edges))
    /\ [][/\ deleteSelectedItems_rest => selectedItems' = NoSelection
          /\ clearAll(TRUE) => selectedItems' = NoSelection]_vars

\* C27 witness: deleteSelectedItems has just removed two selected nodes of
\* three and, by cascade, the selected edge between them.
C27_Witness ==
    /\ pc = "idle"
    /\ selectedItems = NoSelection
    /\ NodeIdsOf(nodes) = {NodeId(3)}
    /\ edges = <<>>
    /\ edgeIdCounter = 2
    /\ nodeIdCounter = 4

--------------------------------------------------------------------------
\* Properties of node creation

\* No name, the empty name, or a name of spaces only.
IsBlankName(name) ==
    \/ name.kind \in {"undefined", "null"}
    \/ name.kind = "string" /\ \A i \in 1..Len(name.chars) : name.chars[i] = " "

IsBlankLabel(label) == \A i \in 1..Len(label) : label[i] = " "

\* C30: addNode whose name (the label, or the prompt's answer when there is
\* no label) is missing, empty or blank throws and leaves the nodes and the
\* node-id counter as they were; the editor's addNode handler then leaves
\* the selection as it was too; updateNodeLabel with an empty or blank
\* label leaves every node as it was.
C30_FailedCreationChangesNothing ==
    [][/\ \A label \in LabelInputs, answer \in PromptAnswers :
             (IsBlankName(nodeNameOf(label, answer)) /\ addNode(label, answer)) =>
                /\ returned' = Throws("Node name is required")
                /\ UNCHANGED <<nodes, nodeIdCounter>>
       /\ \A answer \in PromptAnswers :
             (IsBlankName(answer) /\ Editor_addNode(answer)) =>
                UNCHANGED <<nodes, nodeIdCounter, selectedItems>>
       /\ \A nodeId \in NodeIds, label \in LabelUpdates :
             (IsBlankLabel(label) /\ updateNodeLabel(nodeId, label)) =>
                nodes' = nodes]_vars

\* C30 witness: addNode has just thrown in an editor that holds two nodes,
\* one of them relabelled and one selected.
C30_Witness ==
    /\ returned = Throws("Node name is required")
    /\ Len(nodes) = 2
    /\ nodeIdCounter = 3
    /\ nodes[1].label = <<"B">>
    /\ selectedItems.nodes = <<NodeId(2)>>

--------------------------------------------------------------------------
\* calculateBoundingBox and useCanvasState.fitToView

RECURSIVE MinOver(_, _)
MinOver(seq, i) == IF i = Len(seq) THEN seq[i] ELSE Min2(seq[i], MinOver(seq, i + 1))

RECURSIVE MaxOver(_, _)
MaxOver(seq, i) == IF i = Len(seq) THEN seq[i] ELSE Max2(seq[i], MaxOver(seq, i + 1))

calculateBoundingBox(ns) ==
    IF Len(ns) = 0
    THEN [minX |-> 0, minY |-> 0, maxX |-> 0, maxY |-> 0, width |-> 0, height |-> 0]
    ELSE LET minX == MinOver([i \in 1..Len(ns) |-> ns[i].position.x], 1)
             minY == MinOver([i \in 1..Len(ns) |-> ns[i].position.y], 1)
             maxX == MaxOver([i \in 1..Len(ns) |-> ns[i].position.x + NODE_WIDTH], 1)
             maxY == MaxOver([i \in 1..Len(ns) |-> ns[i].position.y + NODE_HEIGHT], 1)
         IN [minX |-> minX, minY |-> minY, maxX |-> maxX, maxY |-> maxY,
             width |-> maxX - minX, height |-> maxY - minY]

\* newZoom = Math.min(scaleX, scaleY, MAX_ZOOM), for a node array that is
\* not empty; canvasSize is the one of the render the callback was made in.
fitZoom(canvasSize, ns, pad) ==
    LET boundingBox == calculateBoundingBox(ns)
        scaleX == Rat(canvasSize.width - pad * 2, boundingBox.width)
        scaleY == Rat(canvasSize.height - pad * 2, boundingBox.height)
    IN RatMin(RatMin(scaleX, scaleY), MAX_ZOOM)

fitPan(canvasSize, ns, pad) ==
    LET boundingBox == calculateBoundingBox(ns)
        newZoom == fitZoom(canvasSize, ns, pad)
        scaledWidth == RatMul(Whole(boundingBox.width), newZoom)
        scaledHeight == RatMul(Whole(boundingBox.height), newZoom)
    IN [x |-> RatSub(RatDiv(RatSub(Whole(canvasSize.width), scaledWidth), Whole(2)),
                     RatMul(Whole(boundingBox.minX), newZoom)),
        y |-> RatSub(RatDiv(RatSub(Whole(canvasSize.height), scaledHeight), Whole(2)),
                     RatMul(Whole(boundingBox.minY), newZoom))]

\* Variant: fitToView storing newZoom without the lower clamp.
fitToView_noLowerClamp(prev, canvasSize, ns, pad) ==
    IF Len(ns) = 0
    THEN resetView_update(prev)
    ELSE [prev EXCEPT !.zoom = fitZoom(canvasSize, ns, pad),
                      !.pan = fitPan(canvasSize, ns, pad)]

\* What fitToView(ns, pad) makes of the canvas state `prev` when the
\* callback was made in a render whose canvas size was `canvasSize`.
fitToView_update(prev, canvasSize, ns, pad) ==
    IF Len(ns) = 0
    THEN resetView_update(prev)
    ELSE [prev EXCEPT !.zoom = RatMax(fitZoom(canvasSize, ns, pad), MIN_ZOOM),
                      !.pan = fitPan(canvasSize, ns, pad)]

--------------------------------------------------------------------------
\* The canvas hook as a library: its zoom and view operations called in any
\* order on a drawn node array.  `returned` holds the operation last called.

Called(operation) == [kind |-> "canvas", operation |-> operation]

\* The node arrays fitToView is given: none, one node, three nodes close
\* together, two nodes far apart sideways, two far apart downwards, and
\* two left of and above the origin.
FitNodeArrays ==
    {PlacedNodes(0), PlacedNodes(1), PlacedNodes(3),
     <<DAGNode(1, Position(0, 0)), DAGNode(2, Position(2000, 40))>>,
     <<DAGNode(1, Position(50, 0)), DAGNode(2, Position(0, 3000))>>,
     <<DAGNode(1, Position(-400, -300)), DAGNode(2, Position(-90, -100))>>}

\* The sizes the canvas element is given, down to no size at all.
CanvasSizes == {Size(800, 600), Size(1200, 90), Size(100, 100), Size(0, 0)}

\* The paddings fitToView is called with; 50 is its default.
FitPaddings == {0, 50, 500}

\* The arguments of setZoom: below, at and above both limits.
ZoomInputs ==
    {Whole(-1), Whole(0), Rat(1, 20), Rat(1, 10), Rat(1, 2), Whole(3),
     Rat(31, 10), Whole(100)}

CanvasInit ==
    /\ nodes \in FitNodeArrays
    /\ edges = <<>>
    /\ returned = Void
    /\ HooksAtRest

CanvasStep(operation, next) ==
    /\ canvasState' = next
    /\ returned' = Called(operation)
    /\ UNCHANGED <<nodes, nodeIdCounter, edges, edgeIdCounter, selectedItems, pc,
                   alerted, highestSuffixSeen, highestSinceClear, timers>>

zoomIn == CanvasStep("zoomIn", zoomIn_update(canvasState))

zoomOut == CanvasStep("zoomOut", zoomOut_update(canvasState))

setZoom(zoom) == CanvasStep("setZoom", setZoom_update(canvasState, zoom))

resetZoom == CanvasStep("resetZoom", resetZoom_update(canvasState))

resetPan == CanvasStep("resetPan", resetPan_update(canvasState))

resetView == CanvasStep("resetView", resetView_update(canvasState))

fitToView(pad) ==
    CanvasStep("fitToView",
               fitToView_update(canvasState, canvasState.canvasSize, nodes, pad))

updateCanvasSize(size) ==
    CanvasStep("updateCanvasSize", updateCanvasSize_update(canvasState, size))

CanvasNext ==
    \/ zoomIn
    \/ zoomOut
    \/ \E zoom \in ZoomInputs : setZoom(zoom)
    \/ resetZoom
    \/ resetPan
    \/ resetView
    \/ \E pad \in FitPaddings : fitToView(pad)
    \/ \E size \in CanvasSizes : updateCanvasSize(size)

CanvasSpec == CanvasInit /\ [][CanvasNext]_vars

--------------------------------------------------------------------------
\* Properties of the zoom

--------------------------------------------------------------------------
\* The editor with node positions: the handlers of PipelineEditor next to
\* applyAutoLayout and the fit-to-view callback it leaves with setTimeout.
\* JavaScript runs one handler or callback at a time, so the callback runs
\* between two handlers, any number of them after applyAutoLayout.  Items
\* are selected by plain clicks here.

\* Most callbacks of applyAutoLayout waiting at one time.
MaxPendingTimers == 1

\* addNode's newNode with the position the caller passed.
newNodeAt(counter, nodeName, position) ==
    [id |-> NodeId(counter), label |-> Trim(nodeName.chars),
     position |-> position, selected |-> FALSE]

\* { x: Math.random() * 300 + 100, y: Math.random() * 200 + 100 }: the
\* least of its values, which makes added nodes compete for the same spot.
RandomPositions == {Position(100, 100)}

\* PipelineEditor.addNode with the position it computes:
\* findNonOverlappingPosition(nodes, random position), then
\* nodeManagement.addNode(undefined, position), clearSelection, selectNode.
Editor_addNodeAt(answer, random) ==
    LET nodeName == nodeNameOf(Undefined, answer)
        position == findNonOverlappingPosition(nodes, random, 20)
    IN /\ pc = "idle"
       /\ IF nameIsMissing(nodeName)
          THEN /\ returned' = Void /\ alerted' = NoAlert
               /\ UNCHANGED <<nodes, nodeIdCounter, selectedItems,
                              highestSuffixSeen, highestSinceClear>>
          ELSE /\ nodeIdCounter <= MaxNodeId
               /\ nodes' = Append(nodes, newNodeAt(nodeIdCounter, nodeName, position))
               /\ nodeIdCounter' = nodeIdCounter + 1
               /\ highestSuffixSeen' = Max2(highestSuffixSeen, nodeIdCounter)
               /\ highestSinceClear' = Max2(highestSinceClear, nodeIdCounter)
               /\ selectedItems' = selectNode_update(NoSelection, NodeId(nodeIdCounter), FALSE)
               /\ returned' = Void /\ alerted' = NoAlert
       /\ UNCHANGED <<edges, edgeIdCounter, pc, canvasState, timers>>

\* The callback `() => canvasState.fitToView(layoutedNodes, 50)`: the array
\* it holds and the canvas size of the render its fitToView was made in.
FitCallback(layoutedNodes, canvasSize) ==
    [layoutedNodes |-> layoutedNodes, canvasSize |-> canvasSize]

\* What a callback that ran hands the property: the array it had held.
Fired(callback) == [kind |-> "timer", layoutedNodes |-> callback.layoutedNodes]

\* applyAutoLayout, whose buttons are disabled below two nodes:
\* applyBestLayout, setNodes(layoutedNodes), setTimeout(callback, 100).
\* canvasSize only reaches the force layout, whose outcomes `external` holds.
applyAutoLayout(external) ==
    LET layoutedNodes == applyBestLayout(nodes, edges, external)
    IN /\ pc = "idle"
       /\ Len(nodes) >= 2
       /\ Len(timers) < MaxPendingTimers
       /\ IF layoutedNodes.kind = "throws"
          THEN /\ returned' = layoutedNodes
               /\ UNCHANGED <<nodes, timers>>
          ELSE /\ returned' = Void
               /\ nodes' = layoutedNodes.nodes
               /\ timers' = Append(timers, FitCallback(layoutedNodes.nodes,
                                                       canvasState.canvasSize))
       /\ alerted' = NoAlert
       /\ UNCHANGED <<nodeIdCounter, edges, edgeIdCounter, selectedItems, pc,
                      highestSuffixSeen, highestSinceClear, canvasState>>

\* Variant: the callback also stores the array it holds, as if setNodes
\* were deferred with fitToView.
fitTimerFires_setsNodes ==
    /\ pc = "idle"
    /\ timers # <<>>
    /\ canvasState' = fitToView_update(canvasState, Head(timers).canvasSize,
                                       Head(timers).layoutedNodes, 50)
    /\ nodes' = Head(timers).layoutedNodes
    /\ timers' = Tail(timers)
    /\ returned' = Fired(Head(timers)) /\ alerted' = NoAlert
    /\ UNCHANGED <<nodeIdCounter, edges, edgeIdCounter, selectedItems, pc,
                   highestSuffixSeen, highestSinceClear>>

\* The oldest waiting callback runs: canvasState.fitToView(layoutedNodes, 50).
fitTimerFires ==
    /\ pc = "idle"
    /\ timers # <<>>
    /\ canvasState' = fitToView_update(canvasState, Head(timers).canvasSize,
                                       Head(timers).layoutedNodes, 50)
    /\ timers' = Tail(timers)
    /\ returned' = Fired(Head(timers)) /\ alerted' = NoAlert
    /\ UNCHANGED <<nodes, nodeIdCounter, edges, edgeIdCounter, selectedItems, pc,
                   highestSuffixSeen, highestSinceClear>>

ViewNext ==
    \/ \E answer \in PromptAnswers, random \in RandomPositions :
          Editor_addNodeAt(answer, random)
    \/ Canvas_handleMouseUp
    \/ \E i \in 1..Len(nodes) : selectItem("node", nodes[i].id, FALSE)
    \/ \E i \in 1..Len(edges) : selectItem("edge", edges[i].id, FALSE)
    \/ deleteSelectedItems_removeEdgesForNodes
    \/ deleteSelectedItems_rest
    \/ \E confirmed \in BOOLEAN : clearAll(confirmed)
    \/ \E external \in Externals(nodes, edges) : applyAutoLayout(external)
    \/ fitTimerFires

ViewSpec == Init /\ [][ViewNext]_vars

--------------------------------------------------------------------------
\* Properties of the deferred fit-to-view

\* C28: whatever handlers ran between applyAutoLayout and its callback, the
\* callback changes the zoom and the pan only: the nodes, the edges, both
\* id counters, the selection and the canvas size are after it what they
\* were before it.
C28_TimerTouchesOnlyTheView ==
    [][fitTimerFires =>
          /\ UNCHANGED <<nodes, edges, nodeIdCounter, edgeIdCounter, selectedItems>>
          /\ canvasState'.canvasSize = canvasState.canvasSize]_vars

\* C28 witness: the callback has just fitted the view to the two nodes it
\* held, and the node and the edge added since applyAutoLayout are stored
\* and the node still selected.
C28_Witness ==
    /\ returned.kind = "timer"
    /\ Len(returned.layoutedNodes) = 2
    /\ Len(nodes) = 3
    /\ Len(edges) = 1
    /\ edges[1].target = NodeId(3)
    /\ selectedItems.nodes = <<NodeId(3)>>
    /\ nodeIdCounter = 4
    /\ canvasState.zoom # DEFAULT_ZOOM

==============================================================================
